---- MODULE Spec2Model ----
(***************************************************************************)
(* A model of pymot's MotEvaluation (src/pymot/base.py) and of the         *)
(* bounding-box geometry it uses (src/pymot/boundingbox.py).               *)
(*                                                                         *)
(* Real numbers are exact rationals [n |-> numerator, d |-> denominator],  *)
(* kept in lowest terms.  Timestamps are integers in units of half the     *)
(* default sync_delta (0.0005).  Python sequences are 0-based, the         *)
(* sequences here 1-based.                                                 *)
(***************************************************************************)
EXTENDS Integers, Sequences, FiniteSets, TLC

(***************************************************************************)
(* Bounds of the model.                                                    *)
(***************************************************************************)
\* number of ground-truth frames of a stream
MaxFrames == 2
\* number of evaluate() calls followed in one behaviour
MaxCalls == 2
\* width of the boxes of the input families (their height is 1)
BoxWidth == 4

(***************************************************************************)
(* Constructor defaults (base.py:42-43).                                   *)
(***************************************************************************)
\* overlap_threshold = 0.2 = ThrNum / ThrDen
ThrNum == 1
ThrDen == 5
\* sync_delta = 0.001, in timestamp units of 0.0005
SyncDelta == 2

(***************************************************************************)
(* Exact rational arithmetic.                                              *)
(***************************************************************************)
Max(a, b) == IF a >= b THEN a ELSE b
Min(a, b) == IF a <= b THEN a ELSE b

RECURSIVE Gcd(_, _)
Gcd(a, b) == IF b = 0 THEN a ELSE Gcd(b, a % b)

\* the rational n / d (d > 0) in lowest terms
Rat(n, d) ==
    LET g == Gcd(IF n < 0 THEN -n ELSE n, d)
    IN  IF g = 0 THEN [n |-> 0, d |-> 1] ELSE [n |-> n \div g, d |-> d \div g]

Zero == Rat(0, 1)
One == Rat(1, 1)
RatAdd(p, q) == Rat(p.n * q.d + q.n * p.d, p.d * q.d)
RatSub(p, q) == Rat(p.n * q.d - q.n * p.d, p.d * q.d)
RatLeq(p, q) == p.n * q.d <= q.n * p.d
RatLess(p, q) == p.n * q.d < q.n * p.d
RatGeq(p, q) == RatLeq(q, p)
\* 1.0 / p, for p > 0
RatInv(p) == Rat(p.d, p.n)
\* float(p) / k, for an integer k > 0
RatDivInt(p, k) == Rat(p.n, p.d * k)

(***************************************************************************)
(* boundingbox.py                                                          *)
(***************************************************************************)
\* as BoundingBoxRaises, zero extents refused as well
BoundingBoxRaisesOnZero(width, height) == width <= 0 \/ height <= 0

\* BoundingBox.__init__ raises ValueError
BoundingBoxRaises(width, height) == width < 0 \/ height < 0

\* BoundingBox.area
area(bb) == bb.width * bb.height

\* BoundingBox.intersect: the intersection rectangle
intersect(bb1, bb2) ==
    LET x == Max(bb1.x, bb2.x)
        y == Max(bb1.y, bb2.y)
    IN  [x |-> x, y |-> y,
         width |-> Max(0, Min(bb1.x + bb1.width, bb2.x + bb2.width) - x),
         height |-> Max(0, Min(bb1.y + bb1.height, bb2.y + bb2.height) - y)]

\* BoundingBox.intersection: the area of the intersection
intersection(bb1, bb2) == area(intersect(bb1, bb2))

\* BoundingBox.union: the area of the union
union(bb1, bb2) == area(bb1) + area(bb2) - area(intersect(bb1, bb2))

\* intersection_over_union divides by a zero union: ZeroDivisionError
IouRaises(bb1, bb2) == area(bb1) + area(bb2) - intersection(bb1, bb2) = 0

\* intersection_over_union, where it returns
intersection_over_union(bb1, bb2) ==
    LET i == intersection(bb1, bb2)
        u == area(bb1) + area(bb2) - i
    IN  IF u = 0 THEN Zero ELSE Rat(i, u)

(***************************************************************************)
(* Python dictionaries as functions on a finite set of keys.               *)
(***************************************************************************)
EmptyDict == [key \in {} |-> key]
Keys(dict) == DOMAIN dict
Values(dict) == {dict[key] : key \in DOMAIN dict}
\* as Put, the other keys of the dictionary dropped
PutAlone(dict, key, value) == [x \in {key} |-> value]
\* dict[key] = value
Put(dict, key, value) ==
    [x \in (DOMAIN dict) \cup {key} |-> IF x = key THEN value ELSE dict[x]]
\* del dict[key], for every key of gone
DelAll(dict, gone) == [x \in (DOMAIN dict) \ gone |-> dict[x]]

RECURSIVE SumOver(_, _)
\* the sum of the rationals f[x], x in S
SumOver(f, S) ==
    IF S = {} THEN Zero
    ELSE LET x == CHOOSE y \in S : TRUE
         IN  RatAdd(f[x], SumOver(f, S \ {x}))

(***************************************************************************)
(* MotEvaluation: construction and reset (base.py:42-98).                  *)
(*                                                                         *)
(* An object of a frame is [id, x, y, width, height, class]; a             *)
(* ground-truth frame is [timestamp, annotations], a hypothesis frame      *)
(* [timestamp, hypotheses].  A debug record lists references to the        *)
(* objects it holds, as the Python list holds the input dictionaries       *)
(* themselves: [type, frame, index].                                       *)
(***************************************************************************)
\* _reset_annotations: every object of both streams is 'unevaluated'
Unevaluated(objs) == [i \in DOMAIN objs |-> [objs[i] EXCEPT !.class = "unevaluated"]]

reset_annotations(frames) ==
    [f \in DOMAIN frames |->
        [frames[f] EXCEPT !.annotations = Unevaluated(frames[f].annotations)]]

reset_hypotheses(frames) ==
    [f \in DOMAIN frames |->
        [frames[f] EXCEPT !.hypotheses = Unevaluated(frames[f].hypotheses)]]

\* the state set by __init__ and restored by reset()
InitialState(annotations, hypotheses, overlap_threshold, sync_delta) ==
    [annotations |-> reset_annotations(annotations),
     hypotheses |-> reset_hypotheses(hypotheses),
     overlap_threshold |-> overlap_threshold,
     sync_delta |-> sync_delta,
     mappings |-> EmptyDict,
     a_map |-> EmptyDict,
     h_map |-> EmptyDict,
     false_negatives |-> 0,
     false_positives |-> 0,
     identity_switches |-> 0,
     total_annotations |-> 0,
     total_overlap |-> Zero,
     total_correspondences |-> 0,
     annotations_ids |-> {},
     hypotheses_ids |-> {},
     visual_debug_frames |-> << >>,
     evaluated |-> FALSE]

\* as reset, _reset_mapping left out
ResetKeepingMappings(self) ==
    [InitialState(self.annotations, self.hypotheses,
                  self.overlap_threshold, self.sync_delta)
        EXCEPT !.mappings = self.mappings,
               !.a_map = self.a_map,
               !.h_map = self.h_map]

\* MotEvaluation.reset
reset(self) ==
    InitialState(self.annotations, self.hypotheses,
                 self.overlap_threshold, self.sync_delta)

(***************************************************************************)
(* _hypotheses_frame (base.py:535-565).                                    *)
(***************************************************************************)
Abs(x) == IF x < 0 THEN -x ELSE x

\* as hypotheses_frames, a difference of sync_delta itself taken as a match
hypotheses_frames_inclusive(self, timestamp) ==
    {f \in DOMAIN self.hypotheses :
        Abs(self.hypotheses[f].timestamp - timestamp) <= self.sync_delta}

\* the indices of the hypothesis frames within sync_delta of timestamp
hypotheses_frames(self, timestamp) ==
    {f \in DOMAIN self.hypotheses :
        Abs(self.hypotheses[f].timestamp - timestamp) < self.sync_delta}

\* as HypothesesFrameRaises, several matching frames tolerated
HypothesesFrameRaisesNever(self, timestamp) == FALSE

\* more than one hypothesis frame matches: raise Exception
HypothesesFrameRaises(self, timestamp) ==
    Cardinality(hypotheses_frames(self, timestamp)) > 1

\* the index of the frame returned, 0 for the fresh {"hypotheses": []}
hypotheses_frame(self, timestamp) ==
    LET found == hypotheses_frames(self, timestamp)
    IN  IF found = {} THEN 0 ELSE CHOOSE f \in found : \A g \in found : f <= g

\* the 'hypotheses' list of the frame returned
HypothesesOf(self, hf) == IF hf = 0 THEN << >> ELSE self.hypotheses[hf].hypotheses

BB(obj) == [x |-> obj.x, y |-> obj.y, width |-> obj.width, height |-> obj.height]

\* the indices of the objects of objs with the given id
WithId(objs, id) == {i \in DOMAIN objs : objs[i].id = id}
First(S) == CHOOSE i \in S : \A j \in S : i <= j
\* as IdsOf, no id noted
IdsOfNone(objs) == {}
IdsOf(objs) == {objs[i].id : i \in DOMAIN objs}

(***************************************************************************)
(* _evaluate_frame, step 1 (base.py:347-376): the pairs of _mappings that  *)
(* still hold on the frame.                                                *)
(***************************************************************************)
\* as OverlapHolds, the comparison turned round
OverlapHoldsInverted(overlap, threshold) == RatLeq(overlap, threshold)

\* as OverlapHolds, any overlap at all accepted
OverlapHoldsAboveZero(overlap, threshold) == RatLess(Zero, overlap)

\* overlap >= self._overlap_threshold (lines 374 and 405)
OverlapHolds(overlap, threshold) == RatGeq(overlap, threshold)

\* the key a_id of _mappings reaches the overlap test (lines 352-369)
Step1Tested(self, annotations, hypotheses, a_id) ==
    /\ WithId(annotations, a_id) # {}
    /\ Cardinality(WithId(hypotheses, self.mappings[a_id])) = 1

\* a[0] and h[0] of lines 368-369
Step1A(annotations, a_id) == annotations[First(WithId(annotations, a_id))]
Step1H(self, hypotheses, a_id) ==
    hypotheses[First(WithId(hypotheses, self.mappings[a_id]))]

\* the exception the key a_id raises, "none" when it raises none.  The call
\* of lines 355-356 passes len(a) as the category and a_id as the
\* stacklevel of warnings.warn, which refuses them with a TypeError.
Step1Raises(self, annotations, hypotheses, a_id) ==
    IF WithId(annotations, a_id) = {} THEN "none"
    ELSE IF Cardinality(WithId(annotations, a_id)) > 1 THEN "TypeError"
    ELSE IF Cardinality(WithId(hypotheses, self.mappings[a_id])) > 1
         THEN "AssertionError"
    ELSE IF /\ Step1Tested(self, annotations, hypotheses, a_id)
            /\ IouRaises(BB(Step1A(annotations, a_id)),
                         BB(Step1H(self, hypotheses, a_id)))
         THEN "ZeroDivisionError"
    ELSE "none"

\* overlap of line 372
Step1Overlap(self, annotations, hypotheses, a_id) ==
    intersection_over_union(BB(Step1A(annotations, a_id)),
                            BB(Step1H(self, hypotheses, a_id)))

\* the keys whose pair is carried over (line 374)
Step1Keys(self, annotations, hypotheses) ==
    {a_id \in Keys(self.mappings) :
        /\ Step1Tested(self, annotations, hypotheses, a_id)
        /\ Step1Raises(self, annotations, hypotheses, a_id) = "none"
        /\ OverlapHolds(Step1Overlap(self, annotations, hypotheses, a_id),
                        self.overlap_threshold)}

\* correspondences after step 1 (line 375)
Step1Correspondences(self, annotations, hypotheses) ==
    [a_id \in Step1Keys(self, annotations, hypotheses) |->
        Step1H(self, hypotheses, a_id).id]

\* what step 1 adds to _total_overlap over the keys of S (line 376)
Step1Sum(self, annotations, hypotheses, S) ==
    SumOver([a_id \in S |-> Step1Overlap(self, annotations, hypotheses, a_id)], S)

(***************************************************************************)
(* Step 2 (base.py:379-416): the distance matrix.  It is created with      *)
(* len(hypotheses) rows and len(annotations) columns (line 384) and        *)
(* written at [i][j], i the annotation's index and j the hypothesis's      *)
(* (line 408).                                                             *)
(***************************************************************************)
\* munkres_inf, the value the matrix is filled with
munkres_inf == [n |-> 1, d |-> 0]

\* as Step2Unassigned, the correspondences of step 1 not looked at
Step2UnassignedAlways(correspondences, annotations, hypotheses, i, j) == TRUE

\* lines 394 and 399: neither object is in a correspondence of step 1
Step2Unassigned(correspondences, annotations, hypotheses, i, j) ==
    /\ annotations[i].id \notin Keys(correspondences)
    /\ hypotheses[j].id \notin Values(correspondences)

\* the exception raised at annotation i, hypothesis j: the division of line
\* 403, or the write of line 408 outside the matrix
Step2CellRaises(self, correspondences, annotations, hypotheses, i, j) ==
    IF ~Step2Unassigned(correspondences, annotations, hypotheses, i, j) THEN "none"
    ELSE IF IouRaises(BB(annotations[i]), BB(hypotheses[j])) THEN "ZeroDivisionError"
    ELSE IF /\ OverlapHolds(intersection_over_union(BB(annotations[i]), BB(hypotheses[j])),
                            self.overlap_threshold)
            /\ (i > Len(hypotheses) \/ j > Len(annotations))
         THEN "IndexError"
    ELSE "none"

\* the first exception of the two loops (i outer, j inner), "none" without one
Step2Raises(self, correspondences, annotations, hypotheses) ==
    LET bad == {c \in (DOMAIN annotations) \X (DOMAIN hypotheses) :
                  Step2CellRaises(self, correspondences, annotations, hypotheses,
                                  c[1], c[2]) # "none"}
    IN  IF bad = {} THEN "none"
        ELSE LET c == CHOOSE b \in bad :
                        \A o \in bad : b[1] < o[1] \/ (b[1] = o[1] /\ b[2] <= o[2])
             IN  Step2CellRaises(self, correspondences, annotations, hypotheses,
                                 c[1], c[2])

\* the matrix after the loops: entry [r][c] was written iff annotation r and
\* hypothesis c exist, are unassigned and overlap enough
distance_matrix(self, correspondences, annotations, hypotheses) ==
    [cell \in (1..Len(hypotheses)) \X (1..Len(annotations)) |->
        LET i == cell[1]
            j == cell[2]
        IN  IF /\ i <= Len(annotations)
               /\ j <= Len(hypotheses)
               /\ Step2Unassigned(correspondences, annotations, hypotheses, i, j)
               /\ OverlapHolds(intersection_over_union(BB(annotations[i]), BB(hypotheses[j])),
                               self.overlap_threshold)
            THEN RatInv(intersection_over_union(BB(annotations[i]), BB(hypotheses[j])))
            ELSE munkres_inf]

(***************************************************************************)
(* Munkres().compute (base.py:411-416), the assignment library, by its     *)
(* contract: on a matrix of rows x cols entries it returns                 *)
(* min(rows, cols) pairs (row, col), no row and no column twice, of        *)
(* minimum total cost, munkres_inf outweighing every sum of written        *)
(* entries.  The library is deterministic; which of several assignments    *)
(* of minimum cost it returns, and in which order, is a policy fixed for   *)
(* a behaviour: [pick, order].                                             *)
(***************************************************************************)
SolverPolicies == [pick : {"least", "greatest"}, order : {"forward", "backward"}]

\* every assignment of min(rows, cols) pairs
Assignments(rows, cols) ==
    IF rows <= cols
    THEN {{<<r, f[r]>> : r \in 1..rows} :
            f \in {g \in [1..rows -> 1..cols] :
                     \A r1, r2 \in 1..rows : r1 # r2 => g[r1] # g[r2]}}
    ELSE {{<<f[c], c>> : c \in 1..cols} :
            f \in {g \in [1..cols -> 1..rows] :
                     \A c1, c2 \in 1..cols : c1 # c2 => g[c1] # g[c2]}}

\* the cost of an assignment: how many of its entries are munkres_inf, and
\* the sum of the others
AssignmentCost(matrix, assignment) ==
    LET finite == {cell \in assignment : matrix[cell] # munkres_inf}
    IN  [inf |-> Cardinality(assignment \ finite),
         sum |-> SumOver([cell \in finite |-> matrix[cell]], finite)]

CostLess(c1, c2) ==
    c1.inf < c2.inf \/ (c1.inf = c2.inf /\ RatLess(c1.sum, c2.sum))

\* the assignments of minimum cost
Optimal(matrix, rows, cols) ==
    LET all == Assignments(rows, cols)
    IN  {x \in all :
            \A y \in all : ~CostLess(AssignmentCost(matrix, y), AssignmentCost(matrix, x))}

\* the column of row r in an assignment, 0 for a row left out
ColumnOf(assignment, r) ==
    IF \E cell \in assignment : cell[1] = r
    THEN (CHOOSE cell \in assignment : cell[1] = r)[2]
    ELSE 0

RECURSIVE AssignmentKey(_, _, _)
\* a number that orders the assignments, row 1 counting most
AssignmentKey(assignment, r, cols) ==
    IF r = 0 THEN 0
    ELSE AssignmentKey(assignment, r - 1, cols) * (cols + 1) + ColumnOf(assignment, r)

RECURSIVE RowMajor(_, _, _)
\* the pairs of an assignment by increasing row, from row r on
RowMajor(assignment, r, rows) ==
    IF r > rows THEN << >>
    ELSE (IF ColumnOf(assignment, r) = 0 THEN << >>
          ELSE << <<r, ColumnOf(assignment, r)>> >>)
         \o RowMajor(assignment, r + 1, rows)

Reverse(seq) == [i \in 1..Len(seq) |-> seq[Len(seq) + 1 - i]]

\* indices of line 414
compute(matrix, rows, cols, policy) ==
    LET best == Optimal(matrix, rows, cols)
        one == CHOOSE x \in best :
                 \A y \in best :
                    IF policy.pick = "least"
                    THEN AssignmentKey(x, rows, cols) <= AssignmentKey(y, rows, cols)
                    ELSE AssignmentKey(x, rows, cols) >= AssignmentKey(y, rows, cols)
        pairs == RowMajor(one, 1, rows)
    IN  IF policy.order = "forward" THEN pairs ELSE Reverse(pairs)

\* lines 411-416: the solver runs only on a matrix with rows and columns
Step2Indices(matrix, hypotheses, annotations, policy) ==
    IF Len(hypotheses) > 0 /\ Len(annotations) > 0
    THEN compute(matrix, Len(hypotheses), Len(annotations), policy)
    ELSE << >>

(***************************************************************************)
(* Step 2 (base.py:418-480): the loop over the pairs the solver returned.  *)
(* The loop state is [self, correspondences, visual_debug_annotations,     *)
(* raised]; fi is the index of the ground-truth frame, hf that of the      *)
(* hypothesis frame.                                                       *)
(***************************************************************************)
ARef(fi, i) == [type |-> "annotations", frame |-> fi, index |-> i]
HRef(hf, j) == [type |-> "hypothesis", frame |-> hf, index |-> j]

\* as Contradicted, with "or" for the first "and" of the condition
ContradictedLoosely(mappings, a_id, h_id) ==
    {mapping_a_id \in Keys(mappings) :
        \/ (mapping_a_id = a_id \/ mappings[mapping_a_id] # h_id)
        \/ (mapping_a_id # a_id /\ mappings[mapping_a_id] = h_id)}

\* as Contradicted, checked one way only: the pairs with the annotation's id
ContradictedByAnnotation(mappings, a_id, h_id) ==
    {mapping_a_id \in Keys(mappings) :
        mapping_a_id = a_id /\ mappings[mapping_a_id] # h_id}

\* the pairs of _mappings a new pair (a_id, h_id) contradicts (lines 457-458)
Contradicted(mappings, a_id, h_id) ==
    {mapping_a_id \in Keys(mappings) :
        \/ (mapping_a_id = a_id /\ mappings[mapping_a_id] # h_id)
        \/ (mapping_a_id # a_id /\ mappings[mapping_a_id] = h_id)}

\* as SwitchMappings, the contradicted pairs left in place
SwitchMappingsKeepingAll(mappings, a_id, h_id) == Put(mappings, a_id, h_id)

\* lines 452-480: count and delete the contradicted pairs, then write the new
SwitchMappings(mappings, a_id, h_id) ==
    Put(DelAll(mappings, Contradicted(mappings, a_id, h_id)), a_id, h_id)

RECURSIVE Repeat(_, _)
\* seq repeated n times
Repeat(seq, n) == IF n = 0 THEN << >> ELSE seq \o Repeat(seq, n - 1)

\* one iteration of the loop of line 419
Step2Pair(s, matrix, fi, hf, a_index, h_index) ==
    LET self == s.self
        distance == matrix[<<a_index, h_index>>]
    IN  IF distance = munkres_inf THEN s
        ELSE
        LET a_id == self.annotations[fi].annotations[a_index].id
            h_id == self.hypotheses[hf].hypotheses[h_index].id
            switches == Cardinality(Contradicted(self.mappings, a_id, h_id))
        IN  IF a_id \in Keys(self.mappings) /\ self.mappings[a_id] = h_id
            THEN [s EXCEPT !.raised = "AssertionError"]
            ELSE
            [s EXCEPT
               !.correspondences = Put(s.correspondences, a_id, h_id),
               !.visual_debug_annotations =
                   @ \o Repeat(<<ARef(fi, a_index), HRef(hf, h_index)>>, switches),
               !.self =
                 [self EXCEPT
                    !.total_overlap = RatAdd(@, RatInv(distance)),
                    !.a_map = Put(@, a_id, h_id),
                    !.h_map = Put(@, h_id, a_id),
                    !.identity_switches = @ + switches,
                    !.annotations[fi].annotations[a_index].class =
                        IF switches > 0 THEN "identity_switch" ELSE @,
                    !.hypotheses[hf].hypotheses[h_index].class =
                        IF switches > 0 THEN "identity_switch" ELSE @,
                    !.mappings = SwitchMappings(@, a_id, h_id)]]

RECURSIVE Step2Loop(_, _, _, _, _)
\* the loop of line 419 over indices, stopped by an exception
Step2Loop(s, matrix, fi, hf, indices) ==
    IF indices = << >> \/ s.raised # "none" THEN s
    ELSE Step2Loop(Step2Pair(s, matrix, fi, hf, Head(indices)[1], Head(indices)[2]),
                   matrix, fi, hf, Tail(indices))

(***************************************************************************)
(* Step 3 (base.py:483-533): classes, false negatives and positives.       *)
(***************************************************************************)
\* the class of an annotation after lines 487-503
Step3AClass(a, correspondences) ==
    IF a.id \notin Keys(correspondences) THEN "false_negative"
    ELSE IF a.class # "identity_switch" THEN "correspondence"
    ELSE a.class

\* as Step3HClass, a hypothesis in no correspondence left as it was
Step3HClassOfPaired(h, correspondences) ==
    IF h.id \in Values(correspondences) /\ h.class # "identity_switch"
    THEN "correspondence"
    ELSE h.class

\* the class of a hypothesis after lines 506-521
Step3HClass(h, correspondences) ==
    IF h.id \notin Values(correspondences) THEN "false positive"
    ELSE IF h.class # "identity_switch" THEN "correspondence"
    ELSE h.class

\* the annotation is appended to the debug list (lines 495, 503)
Step3AListed(a, correspondences) ==
    a.id \notin Keys(correspondences) \/ a.class # "identity_switch"

\* the hypothesis is appended to the debug list (lines 513, 521)
Step3HListed(h, correspondences) ==
    h.id \notin Values(correspondences) \/ h.class # "identity_switch"

RECURSIVE Listed(_, _)
\* the references of refs, in order, that flags keeps
Listed(refs, flags) ==
    IF refs = << >> THEN << >>
    ELSE (IF Head(flags) THEN <<Head(refs)>> ELSE << >>)
         \o Listed(Tail(refs), Tail(flags))

\* as Misses, the id looked up among the hypothesis ids of correspondences
MissesByValue(annotations, correspondences) ==
    {i \in DOMAIN annotations : annotations[i].id \notin Values(correspondences)}

\* the annotations counted as false negatives (lines 498-502)
Misses(annotations, correspondences) ==
    {i \in DOMAIN annotations : annotations[i].id \notin Keys(correspondences)}

\* as FalseAlarms, the id looked up among the ground-truth ids of correspondences
FalseAlarmsByKey(hypotheses, correspondences) ==
    {j \in DOMAIN hypotheses : hypotheses[j].id \notin Keys(correspondences)}

\* the hypotheses counted as false positives (lines 516-519)
FalseAlarms(hypotheses, correspondences) ==
    {j \in DOMAIN hypotheses : hypotheses[j].id \notin Values(correspondences)}

\* as CorrespondenceCount, one less
CorrespondenceCountLessOne(correspondences) == Cardinality(Keys(correspondences)) - 1

\* len(correspondences) of line 524
CorrespondenceCount(correspondences) == Cardinality(Keys(correspondences))

Step3(s, fi, hf) ==
    LET self == s.self
        correspondences == s.correspondences
        annotations == self.annotations[fi].annotations
        hypotheses == HypothesesOf(self, hf)
        debug == s.visual_debug_annotations
                 \o Listed([i \in DOMAIN annotations |-> ARef(fi, i)],
                           [i \in DOMAIN annotations |->
                               Step3AListed(annotations[i], correspondences)])
                 \o Listed([j \in DOMAIN hypotheses |-> HRef(hf, j)],
                           [j \in DOMAIN hypotheses |->
                               Step3HListed(hypotheses[j], correspondences)])
        marked == [self EXCEPT
                     !.annotations[fi].annotations =
                        [i \in DOMAIN annotations |->
                            [annotations[i] EXCEPT
                               !.class = Step3AClass(annotations[i], correspondences)]]]
        classed == IF hf = 0 THEN marked
                   ELSE [marked EXCEPT
                           !.hypotheses[hf].hypotheses =
                              [j \in DOMAIN hypotheses |->
                                  [hypotheses[j] EXCEPT
                                     !.class = Step3HClass(hypotheses[j], correspondences)]]]
    IN  [classed EXCEPT
           !.false_negatives = @ + Cardinality(Misses(annotations, correspondences)),
           !.false_positives = @ + Cardinality(FalseAlarms(hypotheses, correspondences)),
           !.total_correspondences = @ + CorrespondenceCount(correspondences),
           !.total_annotations = @ + Len(annotations),
           !.visual_debug_frames =
               Append(@, [timestamp |-> self.annotations[fi].timestamp,
                          annotations |-> debug])]

\* as EarlyReturn, the test of line 344 never true
EarlyReturnNever(annotations, hypotheses) == FALSE

\* line 344: nothing to evaluate in the frame
EarlyReturn(annotations, hypotheses) ==
    Len(annotations) = 0 /\ Len(hypotheses) = 0

(***************************************************************************)
(* _evaluate_frame as a whole (base.py:322-533), on frame fi of the        *)
(* annotations.  The result is [self, raised]: the object after the call   *)
(* and the exception that ended it ("none" when it returned).  An          *)
(* exception of step 1 leaves in _total_overlap the overlaps of the keys   *)
(* of _mappings visited before it: seen is that set of keys (the order of  *)
(* a dictionary's keys is the interpreter's).                              *)
(***************************************************************************)
EvaluateFrame(self, fi, policy, seen) ==
    LET frame == self.annotations[fi]
        annotations == frame.annotations
        hf == hypotheses_frame(self, frame.timestamp)
        hypotheses == HypothesesOf(self, hf)
        \* lines 338-342
        noted == [self EXCEPT
                    !.annotations_ids = @ \cup IdsOf(annotations),
                    !.hypotheses_ids = @ \cup IdsOf(hypotheses)]
        raises1 == {Step1Raises(self, annotations, hypotheses, a_id) :
                      a_id \in Keys(self.mappings)} \ {"none"}
        correspondences == Step1Correspondences(self, annotations, hypotheses)
        carried == [noted EXCEPT
                      !.total_overlap =
                          RatAdd(@, Step1Sum(self, annotations, hypotheses,
                                             Keys(correspondences)))]
        raises2 == Step2Raises(self, correspondences, annotations, hypotheses)
        matrix == distance_matrix(self, correspondences, annotations, hypotheses)
        indices == Step2Indices(matrix, hypotheses, annotations, policy)
        paired == Step2Loop([self |-> carried,
                             correspondences |-> correspondences,
                             visual_debug_annotations |-> << >>,
                             raised |-> "none"],
                            matrix, fi, hf, indices)
    IN  IF HypothesesFrameRaises(self, frame.timestamp)
        THEN [self |-> self, raised |-> "Exception"]
        ELSE IF EarlyReturn(annotations, hypotheses)
        THEN [self |-> noted, raised |-> "none"]
        ELSE IF raises1 # {}
        THEN [self |-> [noted EXCEPT
                          !.total_overlap =
                              RatAdd(@, Step1Sum(self, annotations, hypotheses,
                                                 seen \cap Keys(correspondences)))],
              raised |-> CHOOSE e \in raises1 : TRUE]
        ELSE IF raises2 # "none"
        THEN [self |-> carried, raised |-> raises2]
        ELSE IF paired.raised # "none"
        THEN [self |-> paired.self, raised |-> paired.raised]
        ELSE [self |-> Step3(paired, fi, hf), raised |-> "none"]

\* the sets of keys step 1 may have visited when it raises
Step1Seen(self, fi) ==
    LET annotations == self.annotations[fi].annotations
        hypotheses == HypothesesOf(self, hypotheses_frame(self, self.annotations[fi].timestamp))
    IN  IF \E a_id \in Keys(self.mappings) :
              Step1Raises(self, annotations, hypotheses, a_id) # "none"
        THEN SUBSET Keys(self.mappings)
        ELSE {{}}

\* distance_matrix of frame fi when the loop of line 419 begins
FrameMatrix(self, fi) ==
    LET annotations == self.annotations[fi].annotations
        hypotheses == HypothesesOf(self, hypotheses_frame(self, self.annotations[fi].timestamp))
    IN  distance_matrix(self, Step1Correspondences(self, annotations, hypotheses),
                        annotations, hypotheses)

\* indices of frame fi (lines 411-416)
FrameIndices(self, fi, policy) ==
    LET annotations == self.annotations[fi].annotations
        hypotheses == HypothesesOf(self, hypotheses_frame(self, self.annotations[fi].timestamp))
    IN  Step2Indices(FrameMatrix(self, fi), hypotheses, annotations, policy)

\* the state of the loop of line 419 after its first n iterations
Step2Prefix(self, fi, policy, n) ==
    LET annotations == self.annotations[fi].annotations
        hf == hypotheses_frame(self, self.annotations[fi].timestamp)
        hypotheses == HypothesesOf(self, hf)
    IN  Step2Loop([self |-> self,
                   correspondences |-> Step1Correspondences(self, annotations, hypotheses),
                   visual_debug_annotations |-> << >>,
                   raised |-> "none"],
                  FrameMatrix(self, fi), fi, hf,
                  SubSeq(FrameIndices(self, fi, policy), 1, n))

\* the state of the loop of line 419 when it ends in a frame steps 1 and 2
\* raised nothing in: correspondences is the frame's map, and
\* visual_debug_annotations lists the objects marked as identity switches
Step2Outcome(self, fi, policy) ==
    LET annotations == self.annotations[fi].annotations
        hf == hypotheses_frame(self, self.annotations[fi].timestamp)
        hypotheses == HypothesesOf(self, hf)
        correspondences == Step1Correspondences(self, annotations, hypotheses)
        matrix == distance_matrix(self, correspondences, annotations, hypotheses)
    IN  Step2Loop([self |-> self,
                   correspondences |-> correspondences,
                   visual_debug_annotations |-> << >>,
                   raised |-> "none"],
                  matrix, fi, hf,
                  Step2Indices(matrix, hypotheses, annotations, policy))

(***************************************************************************)
(* Accessors (base.py:205-311, 621-681).                                   *)
(***************************************************************************)
\* as calculate_mota_raises, zero ground truths let through
calculate_mota_raises_below_zero(false_negatives, false_positives, identity_switches, groundtruths) ==
    \/ groundtruths < 0
    \/ false_negatives < 0 \/ false_positives < 0 \/ identity_switches < 0

\* as calculate_mota_raises, negative identity switches let through
calculate_mota_raises_ignoring_switches(false_negatives, false_positives, identity_switches, groundtruths) ==
    \/ groundtruths <= 0
    \/ false_negatives < 0 \/ false_positives < 0

\* calculate_mota raises ValueError
calculate_mota_raises(false_negatives, false_positives, identity_switches, groundtruths) ==
    \/ groundtruths <= 0
    \/ false_negatives < 0 \/ false_positives < 0 \/ identity_switches < 0

\* as calculate_mota, the identity switches left out of the sum
calculate_mota_without_switches(false_negatives, false_positives, identity_switches, groundtruths) ==
    RatSub(One, Rat(false_negatives + false_positives, groundtruths))

\* calculate_mota, where it returns
calculate_mota(false_negatives, false_positives, identity_switches, groundtruths) ==
    RatSub(One, Rat(false_negatives + false_positives + identity_switches, groundtruths))

\* as calculate_motp_raises, zero correspondences let through
calculate_motp_raises_below_zero(overlap, correspondences) ==
    correspondences < 0 \/ RatLess(overlap, Zero)

\* as calculate_motp_raises, a negative overlap let through
calculate_motp_raises_ignoring_overlap(overlap, correspondences) == correspondences <= 0

\* calculate_motp raises ValueError
calculate_motp_raises(overlap, correspondences) ==
    correspondences <= 0 \/ RatLess(overlap, Zero)

\* calculate_motp, where it returns
calculate_motp(overlap, correspondences) == RatDivInt(overlap, correspondences)

mota_raises(self) ==
    calculate_mota_raises(self.false_negatives, self.false_positives,
                          self.identity_switches, self.total_annotations)
mota(self) ==
    calculate_mota(self.false_negatives, self.false_positives,
                   self.identity_switches, self.total_annotations)
motp_raises(self) == calculate_motp_raises(self.total_overlap, self.total_correspondences)
motp(self) == calculate_motp(self.total_overlap, self.total_correspondences)

\* as tracking_precision, the numerator taken from _a_map
tracking_precision_by_annotations(self) ==
    IF Cardinality(self.hypotheses_ids) # 0
    THEN Rat(Cardinality(Keys(self.a_map)), Cardinality(self.hypotheses_ids))
    ELSE Zero

tracking_precision(self) ==
    IF Cardinality(self.hypotheses_ids) # 0
    THEN Rat(Cardinality(Keys(self.h_map)), Cardinality(self.hypotheses_ids))
    ELSE Zero

tracking_recall(self) ==
    IF Cardinality(self.annotations_ids) # 0
    THEN Rat(Cardinality(Keys(self.a_map)), Cardinality(self.annotations_ids))
    ELSE Zero

lonely_hypotheses_tracks(self) ==
    Cardinality(self.hypotheses_ids \ Keys(self.h_map))
hypotheses_tracks(self) == Cardinality(self.hypotheses_ids)
lonely_annotation_tracks(self) ==
    Cardinality(self.annotations_ids \ Keys(self.a_map))
annotation_tracks(self) == Cardinality(self.annotations_ids)
covered_annotation_tracks(self) == self.annotations_ids \cap Keys(self.a_map)
covered_hypothesis_tracks(self) == Cardinality(Keys(self.h_map))

\* MotEvaluation.absolute_statistics: the dictionary it returns
absolute_statistics(self) ==
    "total annotations" :> self.total_annotations
    @@ "fn" :> self.false_negatives
    @@ "fp" :> self.false_positives
    @@ "idsw" :> self.identity_switches
    @@ "correspondences" :> self.total_correspondences
    @@ "overlap" :> self.total_overlap
    @@ "lonely annotation tracks" :> lonely_hypotheses_tracks(self)
    @@ "covered annotation tracks" :> covered_annotation_tracks(self)
    @@ "annotation tracks" :> annotation_tracks(self)
    @@ "lonely hypothesis tracks" :> lonely_hypotheses_tracks(self)
    @@ "covered hypothesis tracks" :> covered_hypothesis_tracks(self)
    @@ "hypothesis tracks" :> hypotheses_tracks(self)

(***************************************************************************)
(* The state.                                                              *)
(*   mot     the MotEvaluation object (its fields, inputs included)        *)
(*   twin    a second object built on the same streams with a higher       *)
(*           overlap_threshold                                             *)
(*   solver  the policy of the assignment library                          *)
(*   pc      "idle", or "evaluate" inside the loop of evaluate()           *)
(*   k       the index of the frame the loop of evaluate() is at           *)
(*   raised  the exception that ended the last call, "none" without one    *)
(*   calls   how many times evaluate() was called                          *)
(*   clean   the last evaluate() began in the state reset() leaves         *)
(*   first   the object as the first evaluate() that returned left it      *)
(*   args    the arguments of a call of one of the module-level functions  *)
(*           or of a BoundingBox method, << >> when there is none          *)
(*   result  what that call returned or raised                             *)
(***************************************************************************)
VARIABLES mot, twin, solver, pc, k, raised, calls, clean, first, args, result

vars == <<mot, twin, solver, pc, k, raised, calls, clean, first, args, result>>

(***************************************************************************)
(* Input streams.  Boxes lie on one line: y = 0, height 1, width BoxWidth. *)
(***************************************************************************)
Obj(id, x) ==
    [id |-> id, x |-> x, y |-> 0, width |-> BoxWidth, height |-> 1,
     class |-> "unevaluated"]

overlap_threshold_default == Rat(ThrNum, ThrDen)
\* the higher threshold of the second object
overlap_threshold_high == Rat(1, 2)

\* lists of ground-truth objects of a frame
GtLists ==
    {<< >>,
     <<Obj("A", 0)>>,
     <<Obj("A", 0), Obj("B", 3)>>,
     <<Obj("A", 0), Obj("B", 0)>>}

\* lists of hypothesis objects of a frame
HypLists ==
    {<< >>,
     <<Obj("1", 0)>>, <<Obj("1", 3)>>, <<Obj("2", 0)>>, <<Obj("2", 3)>>,
     <<Obj("1", 0), Obj("2", 3)>>,
     <<Obj("1", 3), Obj("2", 0)>>,
     <<Obj("1", 2), Obj("2", 0)>>,
     <<Obj("1", 0), Obj("2", 0)>>,
     <<Obj("1", 0), Obj("2", 3), Obj("3", 3)>>}

\* the timestamp of frame f of a stream of frames SyncDelta * 2 apart
Aligned(f) == (f - 1) * SyncDelta * 2

GtStream(lists, stamps) ==
    [f \in DOMAIN lists |-> [timestamp |-> stamps[f], annotations |-> lists[f]]]
HypStream(lists, stamps) ==
    [f \in DOMAIN lists |-> [timestamp |-> stamps[f], hypotheses |-> lists[f]]]

Start(annotations, hypotheses) ==
    /\ mot = InitialState(annotations, hypotheses, overlap_threshold_default, SyncDelta)
    /\ twin = InitialState(annotations, hypotheses, overlap_threshold_high, SyncDelta)
    /\ solver \in SolverPolicies
    /\ pc = "idle"
    /\ k = 0
    /\ raised = "none"
    /\ calls = 0
    /\ clean = TRUE
    /\ first = << >>
    /\ args = << >>
    /\ result = << >>

\* streams of MaxFrames frames each, the hypothesis frames at the timestamps
\* of the ground-truth frames
InitAligned ==
    \E gts \in [1..MaxFrames -> GtLists], hyps \in [1..MaxFrames -> HypLists] :
        Start(GtStream(gts, [f \in 1..MaxFrames |-> Aligned(f)]),
              HypStream(hyps, [f \in 1..MaxFrames |-> Aligned(f)]))

\* streams whose timestamps are not aligned: a hypothesis frame missing,
\* shifted inside or outside sync_delta, or two within sync_delta
InitSync ==
    \E gstamps \in {<<0, 4>>, <<0, 1>>},
       hstamps \in {<<0, 1>>, <<0, 8>>, <<1, 5>>, <<2, 6>>, <<0>>},
       gts \in [1..2 -> {<< >>, <<Obj("A", 0)>>}],
       hyps \in [1..2 -> {<< >>, <<Obj("1", 0)>>, <<Obj("2", 0)>>}] :
        Start(GtStream(gts, gstamps),
              HypStream([f \in DOMAIN hstamps |-> hyps[f]], hstamps))

Init == InitAligned \/ InitSync

(***************************************************************************)
(* Actions.                                                                *)
(***************************************************************************)
\* evaluate() is called
Evaluate ==
    /\ pc = "idle"
    /\ calls < MaxCalls
    /\ pc' = "evaluate"
    /\ k' = 1
    /\ calls' = calls + 1
    /\ clean' = (mot = reset(mot))
    /\ raised' = "none"
    /\ UNCHANGED <<mot, twin, solver, first, args, result>>

\* one iteration of the loop of evaluate(): _evaluate_frame returns
EvaluateFrameReturns ==
    /\ pc = "evaluate"
    /\ k <= Len(mot.annotations)
    /\ LET out == EvaluateFrame(mot, k, solver, {})
       IN  /\ out.raised = "none"
           /\ mot' = out.self
    /\ k' = k + 1
    /\ UNCHANGED <<twin, solver, pc, raised, calls, clean, first, args, result>>

\* one iteration of the loop of evaluate(): _evaluate_frame raises, and the
\* exception leaves evaluate()
EvaluateFrameRaises ==
    /\ pc = "evaluate"
    /\ k <= Len(mot.annotations)
    /\ \E seen \in Step1Seen(mot, k) :
        LET out == EvaluateFrame(mot, k, solver, seen)
        IN  /\ out.raised # "none"
            /\ mot' = out.self
            /\ raised' = out.raised
    /\ pc' = "idle"
    /\ k' = 0
    /\ UNCHANGED <<twin, solver, calls, clean, first, args, result>>

\* the loop of evaluate() is over: line 320
EvaluateReturns ==
    /\ pc = "evaluate"
    /\ k > Len(mot.annotations)
    /\ mot' = [mot EXCEPT !.evaluated = TRUE]
    /\ first' = IF first = << >> THEN <<mot'>> ELSE first
    /\ pc' = "idle"
    /\ k' = 0
    /\ UNCHANGED <<twin, solver, raised, calls, clean, args, result>>

\* reset() is called
Reset ==
    /\ pc = "idle"
    /\ mot' = reset(mot)
    /\ raised' = "none"
    /\ clean' = TRUE
    /\ UNCHANGED <<twin, solver, pc, k, calls, first, args, result>>

Next ==
    \/ Evaluate
    \/ EvaluateFrameReturns
    \/ EvaluateFrameRaises
    \/ EvaluateReturns
    \/ Reset

Spec == Init /\ [][Next]_vars

(***************************************************************************)
(* Two objects on the same streams, one call of evaluate() on each: mot    *)
(* with the default overlap_threshold, twin with the higher one.           *)
(***************************************************************************)
GtSingles ==
    {<< >>} \cup {<<Obj("A", p)>> : p \in {0, 3}}
            \cup {<<Obj("A", p), Obj("B", q)>> : p \in {0, 3}, q \in {0, 3}}

HypSingles ==
    {<< >>} \cup {<<Obj("1", p)>> : p \in 0..3}
            \cup {<<Obj("1", p), Obj("2", q)>> : p \in 0..3, q \in 0..3}

\* streams of one frame
InitSingle ==
    \E gt \in GtSingles, hyp \in HypSingles :
        Start(GtStream(<<gt>>, <<0>>), HypStream(<<hyp>>, <<0>>))

InitMono == InitSingle \/ InitAligned

\* evaluate() is called on both objects
EvaluateBoth ==
    /\ pc = "idle"
    /\ calls = 0
    /\ pc' = "evaluate"
    /\ k' = 1
    /\ calls' = 1
    /\ UNCHANGED <<mot, twin, solver, raised, clean, first, args, result>>

\* one iteration of the loop of evaluate() in each object: _evaluate_frame
\* returns in both
EvaluateBothFrameReturns ==
    /\ pc = "evaluate"
    /\ k <= Len(mot.annotations)
    /\ LET low == EvaluateFrame(mot, k, solver, {})
           high == EvaluateFrame(twin, k, solver, {})
       IN  /\ low.raised = "none"
           /\ high.raised = "none"
           /\ mot' = low.self
           /\ twin' = high.self
    /\ k' = k + 1
    /\ UNCHANGED <<solver, pc, raised, calls, clean, first, args, result>>

\* one iteration of the loop of evaluate() in each object: _evaluate_frame
\* raises in one of them; raised is the exception of either
EvaluateBothFrameRaises ==
    /\ pc = "evaluate"
    /\ k <= Len(mot.annotations)
    /\ \E seen_low \in Step1Seen(mot, k), seen_high \in Step1Seen(twin, k) :
        LET low == EvaluateFrame(mot, k, solver, seen_low)
            high == EvaluateFrame(twin, k, solver, seen_high)
        IN  /\ low.raised # "none" \/ high.raised # "none"
            /\ mot' = low.self
            /\ twin' = high.self
            /\ raised' = IF low.raised # "none" THEN low.raised ELSE high.raised
    /\ pc' = "idle"
    /\ k' = 0
    /\ UNCHANGED <<solver, calls, clean, first, args, result>>

\* the loop of evaluate() is over in both objects: line 320
EvaluateBothReturns ==
    /\ pc = "evaluate"
    /\ k > Len(mot.annotations)
    /\ mot' = [mot EXCEPT !.evaluated = TRUE]
    /\ twin' = [twin EXCEPT !.evaluated = TRUE]
    /\ pc' = "idle"
    /\ k' = 0
    /\ UNCHANGED <<solver, raised, calls, clean, first, args, result>>

NextMono ==
    \/ EvaluateBoth
    \/ EvaluateBothFrameReturns
    \/ EvaluateBothFrameRaises
    \/ EvaluateBothReturns

SpecMono == InitMono /\ [][NextMono]_vars

(***************************************************************************)
(* Identity evaluation: the hypothesis stream is the annotation stream.    *)
(***************************************************************************)
IdentityLists ==
    {<< >>,
     <<Obj("A", 0)>>, <<Obj("A", 3)>>,
     <<Obj("A", 0), Obj("B", 3)>>,
     <<Obj("A", 0), Obj("B", 1)>>,
     <<Obj("A", 0), Obj("B", 0)>>,
     <<Obj("B", 0), Obj("A", 3)>>}

InitIdentity ==
    \E lists \in [1..MaxFrames -> IdentityLists], gap \in {1, SyncDelta * 2} :
        LET stamps == [f \in 1..MaxFrames |-> (f - 1) * gap]
        IN  Start(GtStream(lists, stamps), HypStream(lists, stamps))

SpecIdentity == InitIdentity /\ [][Next]_vars

(***************************************************************************)
(* One call of calculate_mota or of calculate_motp (base.py:621-681), on   *)
(* arguments of either sign.  No MotEvaluation object takes part: the      *)
(* variables of the object keep the values of an object on empty streams.  *)
(***************************************************************************)
\* the largest count passed to the functions
MaxCount == 3

Counts == -1..MaxCount
\* overlaps: the halves from -1 to MaxCount
Overlaps == {Rat(n, 2) : n \in -2..(2 * MaxCount)}

MotaArgs ==
    [op : {"calculate_mota"}, false_negatives : Counts, false_positives : Counts,
     identity_switches : Counts, groundtruths : Counts]

MotpArgs == [op : {"calculate_motp"}, overlap : Overlaps, correspondences : Counts]

\* the variables of the object, for the calls that use none
NoObject ==
    /\ mot = InitialState(<< >>, << >>, overlap_threshold_default, SyncDelta)
    /\ twin = InitialState(<< >>, << >>, overlap_threshold_high, SyncDelta)
    /\ solver = [pick |-> "least", order |-> "forward"]
    /\ pc = "idle"
    /\ k = 0
    /\ raised = "none"
    /\ calls = 0
    /\ clean = TRUE
    /\ first = << >>

Pending == [state |-> "pending"]
Raised(error) == [state |-> "raised", error |-> error]
Returned(value) == [state |-> "returned", value |-> value]

InitMetrics ==
    /\ NoObject
    /\ args \in MotaArgs \cup MotpArgs
    /\ result = Pending

\* calculate_mota(false_negatives, false_positives, identity_switches, groundtruths)
CalculateMota ==
    /\ args.op = "calculate_mota"
    /\ result = Pending
    /\ result' =
         IF calculate_mota_raises(args.false_negatives, args.false_positives,
                                  args.identity_switches, args.groundtruths)
         THEN Raised("ValueError")
         ELSE Returned(calculate_mota(args.false_negatives, args.false_positives,
                                      args.identity_switches, args.groundtruths))
    /\ UNCHANGED <<mot, twin, solver, pc, k, raised, calls, clean, first, args>>

\* calculate_motp(overlap, correspondences)
CalculateMotp ==
    /\ args.op = "calculate_motp"
    /\ result = Pending
    /\ result' =
         IF calculate_motp_raises(args.overlap, args.correspondences)
         THEN Raised("ValueError")
         ELSE Returned(calculate_motp(args.overlap, args.correspondences))
    /\ UNCHANGED <<mot, twin, solver, pc, k, raised, calls, clean, first, args>>

NextMetrics ==
    \/ CalculateMota
    \/ CalculateMotp

SpecMetrics == InitMetrics /\ [][NextMetrics]_vars

(***************************************************************************)
(* One call on bounding boxes (boundingbox.py): the constructor, directly  *)
(* or through init_from_dic, on extents of either sign; intersect and      *)
(* intersection_over_union on pairs of boxes of extents >= 0.              *)
(***************************************************************************)
\* the largest coordinate and the largest width of a box
MaxCoord == 2

\* the boxes that construction accepts, heights 0 and 1
Boxes == [x : 0..MaxCoord, y : 0..1, width : 0..MaxCoord, height : 0..1]

ConstructorArgs ==
    [op : {"BoundingBox"}, x : 0..1, y : 0..1,
     width : -1..MaxCoord, height : -1..MaxCoord]

\* has_id: the dictionary has the key 'id'
InitFromDicArgs ==
    [op : {"init_from_dic"}, has_id : BOOLEAN, x : 0..1, y : 0..1,
     width : -1..MaxCoord, height : -1..MaxCoord]

PairArgs == [op : {"intersect", "intersection_over_union"}, bb1 : Boxes, bb2 : Boxes]

InitBoxes ==
    /\ NoObject
    /\ args \in ConstructorArgs \cup InitFromDicArgs \cup PairArgs
    /\ result = Pending

\* what BoundingBox(x, y, width, height, id) returns or raises
Construct(x, y, width, height, id) ==
    IF BoundingBoxRaises(width, height)
    THEN Raised("ValueError")
    ELSE Returned([x |-> x, y |-> y, width |-> width, height |-> height, id |-> id])

\* BoundingBox(x, y, width, height)
NewBoundingBox ==
    /\ args.op = "BoundingBox"
    /\ result = Pending
    /\ result' = Construct(args.x, args.y, args.width, args.height, "")
    /\ UNCHANGED <<mot, twin, solver, pc, k, raised, calls, clean, first, args>>

\* BoundingBox.init_from_dic(bb_dic)
InitFromDic ==
    /\ args.op = "init_from_dic"
    /\ result = Pending
    /\ result' = Construct(args.x, args.y, args.width, args.height,
                           IF args.has_id THEN "id" ELSE "")
    /\ UNCHANGED <<mot, twin, solver, pc, k, raised, calls, clean, first, args>>

\* bb1.intersect(bb2): the box is built by the constructor
Intersect ==
    /\ args.op = "intersect"
    /\ result = Pending
    /\ LET box == intersect(args.bb1, args.bb2)
       IN  result' = Construct(box.x, box.y, box.width, box.height, "intersect")
    /\ UNCHANGED <<mot, twin, solver, pc, k, raised, calls, clean, first, args>>

\* intersection_over_union(bb1, bb2)
IntersectionOverUnion ==
    /\ args.op = "intersection_over_union"
    /\ result = Pending
    /\ LET box == intersect(args.bb1, args.bb2)
       IN  result' =
             IF BoundingBoxRaises(box.width, box.height) THEN Raised("ValueError")
             ELSE IF IouRaises(args.bb1, args.bb2) THEN Raised("ZeroDivisionError")
             ELSE Returned(intersection_over_union(args.bb1, args.bb2))
    /\ UNCHANGED <<mot, twin, solver, pc, k, raised, calls, clean, first, args>>

NextBoxes ==
    \/ NewBoundingBox
    \/ InitFromDic
    \/ Intersect
    \/ IntersectionOverUnion

SpecBoxes == InitBoxes /\ [][NextBoxes]_vars

(***************************************************************************)
(* One call of check_format (checks.py).  A bounding-box dictionary is a   *)
(* function on the keys it has; a frame of a ground-truth document keeps   *)
(* its objects under 'annotations', a frame of a hypothesis document       *)
(* under 'hypotheses'.                                                     *)
(***************************************************************************)
\* as RequiredKeys, 'height' not asked for
RequiredKeysWithoutHeight == {"x", "y", "width"}

\* the keys of line 76
RequiredKeys == {"x", "y", "width", "height"}

\* the if / elif chain of lines 55-74 on one dictionary: what it does to
\* result and to ids
CheckId(bb, ids) ==
    IF "id" \notin DOMAIN bb THEN [result |-> FALSE, ids |-> ids]
    ELSE IF bb["id"] = "" THEN [result |-> FALSE, ids |-> ids]
    ELSE IF bb["id"] \in ids THEN [result |-> FALSE, ids |-> ids]
    ELSE [result |-> TRUE, ids |-> ids \cup {bb["id"]}]

\* the loop of lines 76-82 on one dictionary
CheckKeys(bb) == \A key \in RequiredKeys : key \in DOMAIN bb

RECURSIVE CheckFrame(_, _, _, _)
\* the loop of line 54 from object i on; ok is the variable result
CheckFrame(objs, i, ids, ok) ==
    IF i > Len(objs) THEN ok
    ELSE LET id == CheckId(objs[i], ids)
         IN  CheckFrame(objs, i + 1, id.ids,
                        ok /\ id.result /\ CheckKeys(objs[i]))

RECURSIVE CheckFrames(_, _, _, _)
\* the loop of line 52 from frame f on; ok is the variable result
CheckFrames(frames, type_key, f, ok) ==
    IF f > Len(frames) THEN ok
    ELSE CheckFrames(frames, type_key, f + 1,
                     CheckFrame(frames[f][type_key], 1, {}, ok))

\* _check(dic, mode), mode 'groundtruth' or 'hypotheses'
_check(dic, mode) ==
    LET type_key == IF mode = "groundtruth" THEN "annotations" ELSE "hypotheses"
    IN  CheckFrames(dic.frames, type_key, 1, TRUE)

\* check_format(groundtruth, hypotheses): the tuple it returns
check_format(groundtruth, hypotheses) ==
    <<_check(groundtruth, "groundtruth"), _check(hypotheses, "hypotheses")>>

\* a dictionary with every key, and the same without one key
Dic(id) == [id |-> id, x |-> 0, y |-> 0, width |-> 1, height |-> 1]
Without(bb, key) == [x \in (DOMAIN bb) \ {key} |-> bb[x]]

\* the bounding-box dictionaries of the documents
CheckedDics ==
    {Dic("A"), Dic("B"), Dic(""), Without(Dic("A"), "id")}
      \cup {Without(Dic("A"), key) : key \in {"x", "y", "width", "height"}}

\* the object lists of a frame: none, one or two dictionaries
CheckedLists ==
    {<< >>} \cup {<<bb>> : bb \in CheckedDics}
            \cup {<<bb1, bb2>> : bb1 \in CheckedDics, bb2 \in CheckedDics}

\* lists of frames: one frame of any list, or two frames of at most one
\* dictionary each
CheckedFrameLists ==
    {<<objs>> : objs \in CheckedLists}
      \cup {<<objs1, objs2>> : objs1 \in {objs \in CheckedLists : Len(objs) <= 1},
                               objs2 \in {objs \in CheckedLists : Len(objs) <= 1}}

GtDocument(lists) ==
    [frames |-> [f \in DOMAIN lists |->
                    [timestamp |-> Aligned(f), annotations |-> lists[f]]]]
HypDocument(lists) ==
    [frames |-> [f \in DOMAIN lists |->
                    [timestamp |-> Aligned(f), hypotheses |-> lists[f]]]]

InitChecks ==
    /\ NoObject
    /\ \E gts \in CheckedFrameLists, hyps \in CheckedFrameLists :
          args = [op |-> "check_format", groundtruth |-> GtDocument(gts),
                  hypotheses |-> HypDocument(hyps)]
    /\ result = Pending

\* check_format(groundtruth, hypotheses)
CheckFormat ==
    /\ args.op = "check_format"
    /\ result = Pending
    /\ result' = Returned(check_format(args.groundtruth, args.hypotheses))
    /\ UNCHANGED <<mot, twin, solver, pc, k, raised, calls, clean, first, args>>

NextChecks == CheckFormat

SpecChecks == InitChecks /\ [][NextChecks]_vars

(***************************************************************************)
(* Streams with up to three objects of each kind in a frame, the boxes of  *)
(* different places disjoint.                                              *)
(***************************************************************************)
\* lists of ground-truth objects of a frame
ThreeGtLists ==
    {<<Obj("A", 0)>>,
     <<Obj("C", 0)>>,
     <<Obj("A", 0), Obj("B", 8)>>,
     <<Obj("A", 0), Obj("B", 8), Obj("C", 16)>>}

\* lists of hypothesis objects of a frame
ThreeHypLists ==
    {<<Obj("1", 0)>>,
     <<Obj("2", 0)>>,
     <<Obj("1", 0), Obj("2", 0)>>,
     <<Obj("2", 0), Obj("1", 8)>>,
     <<Obj("1", 0), Obj("2", 8), Obj("3", 16)>>,
     <<Obj("3", 0), Obj("1", 8), Obj("2", 16)>>}

InitThree ==
    \E gts \in [1..MaxFrames -> ThreeGtLists], hyps \in [1..MaxFrames -> ThreeHypLists] :
        Start(GtStream(gts, [f \in 1..MaxFrames |-> Aligned(f)]),
              HypStream(hyps, [f \in 1..MaxFrames |-> Aligned(f)]))

SpecThree == InitThree /\ [][Next]_vars

(***************************************************************************)
(* Streams in which a frame may hold two ground-truth objects with the     *)
(* same id.                                                                *)
(***************************************************************************)
\* lists of ground-truth objects of a frame
DuplicateGtLists ==
    {<<Obj("A", 0)>>,
     <<Obj("A", 0), Obj("A", 8)>>,
     <<Obj("A", 8), Obj("A", 0)>>,
     <<Obj("A", 0), Obj("B", 8)>>}

\* lists of hypothesis objects of a frame
DuplicateHypLists ==
    {<< >>,
     <<Obj("1", 0)>>,
     <<Obj("1", 8)>>,
     <<Obj("1", 0), Obj("2", 8)>>}

InitDuplicates ==
    \E gts \in [1..MaxFrames -> DuplicateGtLists],
       hyps \in [1..MaxFrames -> DuplicateHypLists] :
        Start(GtStream(gts, [f \in 1..MaxFrames |-> Aligned(f)]),
              HypStream(hyps, [f \in 1..MaxFrames |-> Aligned(f)]))

SpecDuplicates == InitDuplicates /\ [][Next]_vars

(***************************************************************************)
(* Three ground-truth frames over two hypothesis frames: the second        *)
(* hypothesis frame lies within sync_delta of the second and of the third  *)
(* ground-truth frame, and is evaluated with each.                         *)
(***************************************************************************)
SharedGtStamps == <<0, SyncDelta * 2, SyncDelta * 2 + 1>>
SharedHypStamps == <<0, SyncDelta * 2>>

SharedGtLists ==
    {<< >>, <<Obj("A", 0)>>, <<Obj("A", 0), Obj("B", 3)>>}

SharedHypLists ==
    {<<Obj("1", 0)>>,
     <<Obj("2", 0)>>,
     <<Obj("1", 0), Obj("2", 0)>>,
     <<Obj("1", 0), Obj("2", 3)>>,
     <<Obj("1", 3), Obj("2", 0)>>}

InitShared ==
    \E gts \in [DOMAIN SharedGtStamps -> SharedGtLists],
       hyps \in [DOMAIN SharedHypStamps -> SharedHypLists] :
        Start(GtStream(gts, SharedGtStamps), HypStream(hyps, SharedHypStamps))

SpecShared == InitShared /\ [][Next]_vars

(***************************************************************************)
(* Streams in which the second ground-truth frame may have two hypothesis  *)
(* frames within sync_delta, the first having one or none.                 *)
(***************************************************************************)
AmbiguousHypStamps ==
    {<<0, SyncDelta * 2 - 1, SyncDelta * 2 + 1>>,
     <<SyncDelta * 2 - 1, SyncDelta * 2 + 1>>,
     <<0, SyncDelta * 2>>,
     <<0, 1>>}

InitAmbiguous ==
    \E hstamps \in AmbiguousHypStamps,
       gts \in [1..MaxFrames -> {<< >>, <<Obj("A", 0)>>, <<Obj("A", 0), Obj("B", 3)>>}],
       hyps \in [1..3 -> {<<Obj("1", 0)>>, <<Obj("2", 0)>>, <<Obj("1", 0), Obj("2", 0)>>}] :
        Start(GtStream(gts, [f \in 1..MaxFrames |-> Aligned(f)]),
              HypStream([f \in DOMAIN hstamps |-> hyps[f]], hstamps))

SpecAmbiguous == InitAmbiguous /\ [][Next]_vars

(***************************************************************************)
(* Properties.                                                             *)
(***************************************************************************)
\* a step of evaluate()'s loop in which _evaluate_frame returned
FrameEvaluated == pc = "evaluate" /\ pc' = "evaluate" /\ k' = k + 1

\* the hypotheses _evaluate_frame pairs with frame fi of the annotations
FrameHypotheses(self, fi) ==
    HypothesesOf(self, hypotheses_frame(self, self.annotations[fi].timestamp))

\* C1: the persistent mapping _mappings is injective in every state, so after
\* every evaluated frame: no hypothesis id is the value of two ground-truth
\* ids, whatever the solver's policy.
C1_MappingsInjective ==
    \A a1, a2 \in Keys(mot.mappings) :
        a1 # a2 => mot.mappings[a1] # mot.mappings[a2]

\* a frame in which new pairs displaced old ones has been evaluated
C1_Witness ==
    /\ mot.identity_switches >= 2
    /\ Cardinality(Keys(mot.mappings)) = 2

\* C2, as claimed: after every evaluated frame FN + N_corr + (the identity
\* switches counted in that frame) <= N_gt.
C2_SwitchesCountedApart ==
    [][FrameEvaluated =>
         mot'.false_negatives + mot'.total_correspondences
           + (mot'.identity_switches - mot.identity_switches)
             <= mot'.total_annotations]_vars

\* C2, amended: in every state FN + N_corr <= N_gt; the pairs counted as
\* identity switches are among the correspondences.
C2_ClassifiedOnce ==
    mot.false_negatives + mot.total_correspondences <= mot.total_annotations

\* frames with a miss and with an identity switch have been evaluated
C2_Witness ==
    /\ mot.identity_switches > 0
    /\ mot.false_negatives > 0
    /\ mot.total_correspondences > 0

\* C3: a frame that is evaluated adds to FP and to N_corr, together, the
\* number of hypotheses of the frame.
C3_HypothesesCountedOnce ==
    [][FrameEvaluated =>
         (mot'.false_positives - mot.false_positives)
           + (mot'.total_correspondences - mot.total_correspondences)
             = Len(FrameHypotheses(mot, k))]_vars

\* a frame with a false positive and a correspondence has been evaluated
C3_Witness ==
    /\ pc = "evaluate"
    /\ k = 2
    /\ mot.false_positives = 1
    /\ mot.total_correspondences = 1

\* C4, as claimed: after a frame is evaluated 0 <= S_overlap <= N_corr, and
\* with N_corr > 0 motp() returns a value in [0, 1].
C4_OverlapBounded ==
    (pc = "evaluate" /\ k > 1) =>
        /\ RatLeq(Zero, mot.total_overlap)
        /\ RatLeq(mot.total_overlap, Rat(mot.total_correspondences, 1))
        /\ mot.total_correspondences > 0 =>
              /\ ~motp_raises(mot)
              /\ RatLeq(Zero, motp(mot))
              /\ RatLeq(motp(mot), One)

\* both calls of evaluate() returned
BothReturned ==
    pc = "idle" /\ calls = 1 /\ raised = "none" /\ mot.evaluated /\ twin.evaluated

C6_SecondEvaluateNoOp ==
    (calls = 2 /\ ~clean /\ first # << >>) => mot = first[1]

\* the state reset() is said to leave
ResetState(self) ==
    /\ self.false_negatives = 0
    /\ self.false_positives = 0
    /\ self.identity_switches = 0
    /\ self.total_annotations = 0
    /\ self.total_correspondences = 0
    /\ self.total_overlap = Zero
    /\ self.mappings = EmptyDict
    /\ self.a_map = EmptyDict
    /\ self.h_map = EmptyDict
    /\ self.annotations_ids = {}
    /\ self.hypotheses_ids = {}
    /\ self.visual_debug_frames = << >>
    /\ self.evaluated = FALSE

\* C7: reset() leaves every counter zero, the mapping, the sets and the debug
\* record empty and evaluated false; and an evaluate() that begins in that
\* state and returns leaves the object as the first evaluate() did.
C7_ResetLaw ==
    /\ [][Reset => ResetState(mot')]_vars
    /\ []((pc = "idle" /\ mot.evaluated /\ clean /\ first # << >>) => mot = first[1])

\* evaluate(), reset(), evaluate() on streams with an identity switch
C7_Witness ==
    /\ pc = "idle"
    /\ calls = 2
    /\ clean
    /\ mot.evaluated
    /\ first # << >>
    /\ mot.identity_switches > 0
    /\ mot.false_positives > 0

\* what identity evaluation is said to give
Perfect(self) ==
    /\ self.false_negatives = 0
    /\ self.false_positives = 0
    /\ self.identity_switches = 0
    /\ ~mota_raises(self)
    /\ mota(self) = One
    /\ ~motp_raises(self)
    /\ motp(self) = One
    /\ tracking_precision(self) = One
    /\ tracking_recall(self) = One

\* the first evaluate() of the object has returned
FirstEvaluateReturned == pc = "idle" /\ calls = 1 /\ mot.evaluated

\* C8, as claimed: when the hypothesis stream is the annotation stream, after
\* evaluate() FN = FP = IDSW = 0 and MOTA, MOTP, tracking precision and
\* tracking recall are 1, whatever the solver picks among ties.
C8_IdentityPerfect == FirstEvaluateReturned => Perfect(mot)

\* the stream holds an object
HasObject(self) ==
    \E f \in DOMAIN self.annotations : self.annotations[f].annotations # << >>

\* no two objects of a frame have the same box
DistinctBoxes(self) ==
    \A f \in DOMAIN self.annotations :
        \A i, j \in DOMAIN self.annotations[f].annotations :
            i # j => BB(self.annotations[f].annotations[i])
                       # BB(self.annotations[f].annotations[j])

\* C8, amended: the same, for streams that hold at least one object and in
\* which no two objects of a frame have the same box (ids unique within a
\* frame, boxes of positive area, evaluate() returning).
C8_IdentityPerfectDistinct ==
    (FirstEvaluateReturned /\ HasObject(mot) /\ DistinctBoxes(mot)) => Perfect(mot)

\* two overlapping objects a frame, the solver picking the greatest assignment
C8_Witness ==
    /\ FirstEvaluateReturned
    /\ DistinctBoxes(mot)
    /\ solver.pick = "greatest"
    /\ mot.total_correspondences = 4
    /\ \E f \in DOMAIN mot.annotations :
          /\ Len(mot.annotations[f].annotations) = 2
          /\ intersection(BB(mot.annotations[f].annotations[1]),
                          BB(mot.annotations[f].annotations[2])) > 0

\* no hypothesis frame carries an object
NoHypotheses(self) ==
    \A f \in DOMAIN self.hypotheses : self.hypotheses[f].hypotheses = << >>

\* no ground-truth frame carries an object
NoAnnotations(self) ==
    \A f \in DOMAIN self.annotations : self.annotations[f].annotations = << >>

\* C9: without hypotheses, in every state and so after evaluate(): FN = N_gt,
\* FP = IDSW = N_corr = 0, mota() returns 0 when N_gt > 0, motp() raises.
C9_EmptyHypotheses ==
    NoHypotheses(mot) =>
        /\ mot.false_negatives = mot.total_annotations
        /\ mot.false_positives = 0
        /\ mot.identity_switches = 0
        /\ mot.total_correspondences = 0
        /\ mot.total_annotations > 0 => (~mota_raises(mot) /\ mota(mot) = Zero)
        /\ motp_raises(mot)

\* evaluate() has returned on annotations with objects and no hypotheses
C9_Witness ==
    /\ NoHypotheses(mot)
    /\ mot.evaluated
    /\ mot.total_annotations >= 3

\* C10: without annotations, in every state and so after evaluate(): N_gt = 0
\* and FN = 0 whatever the hypotheses, and mota() raises.
C10_EmptyAnnotations ==
    NoAnnotations(mot) =>
        /\ mot.total_annotations = 0
        /\ mot.false_negatives = 0
        /\ mota_raises(mot)

\* evaluate() has returned on hypotheses with objects and no annotations
C10_Witness ==
    /\ NoAnnotations(mot)
    /\ mot.evaluated
    /\ mot.false_positives >= 3

\* the hypothesis frames said to match timestamp: |t_h - t| < sync_delta
C11_Matches(self, timestamp) ==
    {f \in DOMAIN self.hypotheses :
        /\ self.hypotheses[f].timestamp - timestamp < self.sync_delta
        /\ timestamp - self.hypotheses[f].timestamp < self.sync_delta}

C11_WitnessAmbiguous ==
    /\ pc = "idle"
    /\ raised = "Exception"
    /\ \E f \in DOMAIN mot.annotations :
          Cardinality(C11_Matches(mot, mot.annotations[f].timestamp)) >= 2

\* C12: no step of evaluate() removes a key of _a_map or of _h_map; only
\* reset() empties them.
C12_CoverageGrows ==
    [][pc = "evaluate" =>
         /\ Keys(mot.a_map) \subseteq Keys(mot'.a_map)
         /\ Keys(mot.h_map) \subseteq Keys(mot'.h_map)]_vars

\* after two frames a ground-truth id that lost its pair is still covered
C12_Witness ==
    /\ pc = "evaluate"
    /\ k = 3
    /\ Cardinality(Keys(mot.a_map)) = 2
    /\ Cardinality(Keys(mot.h_map)) = 2
    /\ Keys(mot.mappings) # Keys(mot.a_map)

\* C13: in every state, so after every evaluated frame, the keys of _a_map
\* are ground-truth ids seen and the keys of _h_map hypothesis ids seen;
\* the covered ground-truth ids are among those seen and the covered
\* hypothesis ids are no more than those seen.
C13_CoveredAmongSeen ==
    /\ Keys(mot.a_map) \subseteq mot.annotations_ids
    /\ Keys(mot.h_map) \subseteq mot.hypotheses_ids
    /\ covered_annotation_tracks(mot) \subseteq mot.annotations_ids
    /\ covered_annotation_tracks(mot) = Keys(mot.a_map)
    /\ covered_hypothesis_tracks(mot) <= Cardinality(mot.hypotheses_ids)

\* evaluate() has returned with covered and uncovered ids of both kinds
C13_Witness ==
    /\ mot.evaluated
    /\ Keys(mot.a_map) # {}
    /\ Keys(mot.a_map) # mot.annotations_ids
    /\ covered_hypothesis_tracks(mot) > 0
    /\ covered_hypothesis_tracks(mot) < Cardinality(mot.hypotheses_ids)

\* C14, as claimed: tracking_precision is the number of ground-truth ids
\* ever in a correspondence over the number of hypothesis ids seen, 0 when
\* none was seen.
C14_PrecisionByAnnotations ==
    tracking_precision(mot) =
        IF mot.hypotheses_ids = {} THEN Zero
        ELSE Rat(Cardinality(Keys(mot.a_map)), Cardinality(mot.hypotheses_ids))

\* C14, amended: tracking_precision is the number of hypothesis ids ever in
\* a correspondence over the number of hypothesis ids seen, 0 when none was
\* seen; it lies in [0, 1].
C14_PrecisionByHypotheses ==
    /\ tracking_precision(mot) =
          IF mot.hypotheses_ids = {} THEN Zero
          ELSE Rat(Cardinality(Keys(mot.h_map)), Cardinality(mot.hypotheses_ids))
    /\ RatLeq(Zero, tracking_precision(mot))
    /\ RatLeq(tracking_precision(mot), One)

\* evaluate() has returned with more hypothesis ids covered than
\* ground-truth ids
C14_Witness ==
    /\ mot.evaluated
    /\ Cardinality(Keys(mot.h_map)) > Cardinality(Keys(mot.a_map))
    /\ Cardinality(mot.hypotheses_ids) > Cardinality(Keys(mot.h_map))

\* C15, as claimed: the 'lonely annotation tracks' entry of
\* absolute_statistics() is the number of ground-truth ids seen and never in
\* a correspondence.
C15_LonelyAnnotationEntry ==
    absolute_statistics(mot)["lonely annotation tracks"]
        = Cardinality(mot.annotations_ids \ Keys(mot.a_map))

\* calculate_mota was called and is over
MotaDone == args.op = "calculate_mota" /\ result # Pending

\* C16: on non-negative FN, FP, IDSW and N_gt > 0 calculate_mota returns
\* 1 - (FN + FP + IDSW) / N_gt; the value is never above 1, is 1 exactly
\* when FN = FP = IDSW = 0, and is negative when FN + FP + IDSW > N_gt.
C16_MotaValue ==
    (/\ MotaDone
     /\ args.false_negatives >= 0
     /\ args.false_positives >= 0
     /\ args.identity_switches >= 0
     /\ args.groundtruths > 0) =>
        LET sum == args.false_negatives + args.false_positives
                     + args.identity_switches
        IN  /\ result.state = "returned"
            /\ result.value.d > 0
            /\ result.value.n * args.groundtruths
                 = (args.groundtruths - sum) * result.value.d
            /\ RatLeq(result.value, One)
            /\ result.value = One <=> sum = 0
            /\ sum > args.groundtruths => RatLess(result.value, Zero)

\* calculate_mota returned a negative value
C16_Witness ==
    /\ MotaDone
    /\ result.state = "returned"
    /\ args.identity_switches > 0
    /\ args.false_negatives + args.false_positives + args.identity_switches
         > args.groundtruths
    /\ RatLess(result.value, Zero)

\* C17: calculate_mota raises ValueError, and returns nothing, whenever
\* N_gt <= 0 or one of FN, FP, IDSW is negative.
C17_MotaRaises ==
    (/\ MotaDone
     /\ \/ args.groundtruths <= 0
        \/ args.false_negatives < 0
        \/ args.false_positives < 0
        \/ args.identity_switches < 0) => result = Raised("ValueError")

\* calculate_mota raised on negative identity switches alone
C17_Witness ==
    /\ MotaDone
    /\ result = Raised("ValueError")
    /\ args.groundtruths > 0
    /\ args.false_negatives >= 0
    /\ args.false_positives >= 0
    /\ args.identity_switches < 0

\* C18: calculate_motp raises ValueError whenever correspondences <= 0 or
\* overlap < 0, and otherwise returns overlap / correspondences.
C18_MotpRaisesOrDivides ==
    (args.op = "calculate_motp" /\ result # Pending) =>
        IF args.correspondences <= 0 \/ RatLess(args.overlap, Zero)
        THEN result = Raised("ValueError")
        ELSE /\ result.state = "returned"
             /\ result.value.d > 0
             /\ result.value.n * args.overlap.d * args.correspondences
                  = args.overlap.n * result.value.d

\* calculate_motp raised on zero correspondences and a positive overlap
C18_Witness ==
    /\ args.op = "calculate_motp"
    /\ result = Raised("ValueError")
    /\ args.correspondences = 0
    /\ RatLess(Zero, args.overlap)

\* C19, as claimed: on boxes of extents >= 0, both of zero area included,
\* intersection_over_union returns a value, and the value is 0 when the
\* intersection is empty.
C19_IouReturns ==
    (args.op = "intersection_over_union" /\ result # Pending) =>
        /\ result.state = "returned"
        /\ intersection(args.bb1, args.bb2) = 0 => result.value = Zero

\* a constructor call is over
ConstructorDone == args.op \in {"BoundingBox", "init_from_dic"} /\ result # Pending

\* C20: BoundingBox(...), called directly or by init_from_dic, raises
\* ValueError exactly when width < 0 or height < 0 and otherwise returns the
\* box, zero extents included; intersect() on two boxes returns a box of
\* width >= 0 and height >= 0 and never raises.
C20_NegativeExtentRefused ==
    /\ ConstructorDone =>
          /\ result = Raised("ValueError") <=> (args.width < 0 \/ args.height < 0)
          /\ result # Raised("ValueError") =>
                /\ result.state = "returned"
                /\ result.value.width = args.width
                /\ result.value.height = args.height
    /\ (args.op = "intersect" /\ result # Pending) =>
          /\ result.state = "returned"
          /\ result.value.width >= 0
          /\ result.value.height >= 0

\* init_from_dic returned a box of width 0
C20_Witness ==
    /\ args.op = "init_from_dic"
    /\ result.state = "returned"
    /\ args.width = 0
    /\ args.height > 0

\* intersect returned an empty box for two boxes apart
C20_WitnessIntersect ==
    /\ args.op = "intersect"
    /\ result.state = "returned"
    /\ result.value.width = 0
    /\ args.bb1.x + args.bb1.width < args.bb2.x

\* a list of dictionaries in which every one has a non-empty id that no
\* other of the list has, and the keys x, y, width and height
WellFormed(objs) ==
    \A i \in DOMAIN objs :
        /\ "id" \in DOMAIN objs[i]
        /\ objs[i]["id"] # ""
        /\ \A j \in DOMAIN objs :
              (j # i /\ "id" \in DOMAIN objs[j]) => objs[j]["id"] # objs[i]["id"]
        /\ {"x", "y", "width", "height"} \subseteq DOMAIN objs[i]

\* C21: check_format returns a pair; its first component is true exactly
\* when every frame of the ground-truth document is well formed, its second
\* exactly when every frame of the hypothesis document is, each whatever the
\* other document holds.
C21_CheckFormat ==
    (args.op = "check_format" /\ result # Pending) =>
        /\ result.state = "returned"
        /\ result.value[1] <=>
              \A f \in DOMAIN args.groundtruth.frames :
                  WellFormed(args.groundtruth.frames[f].annotations)
        /\ result.value[2] <=>
              \A f \in DOMAIN args.hypotheses.frames :
                  WellFormed(args.hypotheses.frames[f].hypotheses)

\* check_format accepted ground truth with one id in two frames and refused
\* hypotheses that lack nothing but the key height
C21_Witness ==
    /\ args.op = "check_format"
    /\ result = Returned(<<TRUE, FALSE>>)
    /\ Len(args.groundtruth.frames) = 2
    /\ args.groundtruth.frames[1].annotations = <<Dic("A")>>
    /\ args.groundtruth.frames[2].annotations = <<Dic("A")>>
    /\ args.hypotheses.frames[1].hypotheses = <<Dic("B"), Without(Dic("A"), "height")>>

\* the elements of a sequence
Range(seq) == {seq[i] : i \in DOMAIN seq}

\* the pair (a_id -> _mappings[a_id]) is in the frame and overlaps enough
CarriedOver(self, fi, a_id) ==
    LET annotations == self.annotations[fi].annotations
        hypotheses == FrameHypotheses(self, fi)
    IN  /\ a_id \in Keys(self.mappings)
        /\ WithId(annotations, a_id) # {}
        /\ WithId(hypotheses, self.mappings[a_id]) # {}
        /\ ~IouRaises(BB(Step1A(annotations, a_id)), BB(Step1H(self, hypotheses, a_id)))
        /\ RatGeq(Step1Overlap(self, annotations, hypotheses, a_id),
                  self.overlap_threshold)

\* C22: a pair (a -> h) of _mappings whose objects are both in the frame and
\* overlap by at least the threshold is kept by a frame that is evaluated:
\* the frame's correspondences map a to h and nothing else to h, no object
\* with the id of a or of h is marked as an identity switch, and _mappings
\* still maps a to h, whatever the other hypotheses overlap; _mappings keeps
\* the pair also when the frame raises.
C22_CarryOverKept ==
    [][(pc = "evaluate" /\ k <= Len(mot.annotations)) =>
         \A a_id \in Keys(mot.mappings) :
            CarriedOver(mot, k, a_id) =>
              LET h_id == mot.mappings[a_id]
                  out == Step2Outcome(mot, k, solver)
                  hf == hypotheses_frame(mot, mot.annotations[k].timestamp)
              IN  /\ a_id \in Keys(mot'.mappings)
                  /\ mot'.mappings[a_id] = h_id
                  /\ FrameEvaluated =>
                       /\ a_id \in Keys(out.correspondences)
                       /\ out.correspondences[a_id] = h_id
                       /\ \A o \in Keys(out.correspondences) :
                             out.correspondences[o] = h_id => o = a_id
                       /\ \A i \in WithId(mot.annotations[k].annotations, a_id) :
                             ARef(k, i) \notin Range(out.visual_debug_annotations)
                       /\ \A j \in WithId(FrameHypotheses(mot, k), h_id) :
                             HRef(hf, j) \notin Range(out.visual_debug_annotations)
                       /\ mot'.total_correspondences - mot.total_correspondences
                             = Cardinality(Keys(out.correspondences))]_vars

\* the second frame kept A -> 1 although hypothesis 2 lies exactly on A
C22_Witness ==
    /\ pc = "evaluate" /\ k = 3 /\ calls = 1
    /\ mot.annotations[2].annotations = <<[Obj("A", 0) EXCEPT !.class = "correspondence"]>>
    /\ mot.hypotheses[2].hypotheses =
          <<[Obj("1", 2) EXCEPT !.class = "correspondence"],
            [Obj("2", 0) EXCEPT !.class = "false positive"]>>
    /\ mot.mappings = [a \in {"A"} |-> "1"]
    /\ mot.identity_switches = 0
    /\ mot.total_correspondences = 2

\* C23: in a frame that is evaluated, every pair (a_id, h_id) the loop of
\* step 2 accepts adds to the identity switches the number of pairs
\* (a', h') of _mappings with (a' = a_id and h' # h_id) or (a' # a_id and
\* h' = h_id), removes exactly those pairs, leaves every other pair as it
\* was, and ends with _mappings[a_id] = h_id; the object's _mappings and
\* counter after the frame are those the last iteration left.
C23_SwitchDetection ==
    [][FrameEvaluated =>
         LET indices == FrameIndices(mot, k, solver)
             matrix == FrameMatrix(mot, k)
             last == Step2Prefix(mot, k, solver, Len(indices)).self
         IN  /\ \A n \in 1..Len(indices) :
                   matrix[indices[n]] # munkres_inf =>
                     LET before == Step2Prefix(mot, k, solver, n - 1).self
                         after == Step2Prefix(mot, k, solver, n).self
                         a_id == mot.annotations[k].annotations[indices[n][1]].id
                         h_id == FrameHypotheses(mot, k)[indices[n][2]].id
                         M == before.mappings
                         against == {a \in Keys(M) :
                                       \/ (a = a_id /\ M[a] # h_id)
                                       \/ (a # a_id /\ M[a] = h_id)}
                     IN  /\ after.identity_switches
                              = before.identity_switches + Cardinality(against)
                         /\ Keys(after.mappings) = (Keys(M) \ against) \cup {a_id}
                         /\ after.mappings[a_id] = h_id
                         /\ \A a \in Keys(M) \ (against \cup {a_id}) :
                               after.mappings[a] = M[a]
             /\ mot'.mappings = last.mappings
             /\ mot'.identity_switches = last.identity_switches]_vars

\* the second frame paired A with hypothesis 2 against A -> 1: one switch,
\* the old pair gone
C23_Witness ==
    /\ pc = "evaluate" /\ k = 3 /\ calls = 1
    /\ mot.hypotheses[1].hypotheses = <<[Obj("1", 0) EXCEPT !.class = "correspondence"]>>
    /\ mot.hypotheses[2].hypotheses = <<[Obj("2", 0) EXCEPT !.class = "identity_switch"]>>
    /\ mot.mappings = [a \in {"A"} |-> "2"]
    /\ mot.identity_switches = 1

\* the ids of the streams
GtIds == {"A", "B", "C"}
HypIds == {"1", "2", "3"}

\* the pairs of mappings that a pair (a_id, h_id) would contradict
Against(mappings, a_id, h_id) ==
    {a \in Keys(mappings) :
        \/ (a = a_id /\ mappings[a] # h_id)
        \/ (a # a_id /\ mappings[a] = h_id)}

\* no pair of ids contradicts more than two pairs of self._mappings
AtMostTwoAgainst(self) ==
    \A a_id \in GtIds, h_id \in HypIds :
        Cardinality(Against(self.mappings, a_id, h_id)) <= 2

\* C24: a pair accepted by step 2 contradicts at most two pairs of
\* _mappings, so one iteration of the loop adds at most 2 to the identity
\* switches; and in every state, between frames, whatever pair were
\* accepted next would contradict at most two pairs.
C24_AtMostTwoSwitches ==
    [][/\ AtMostTwoAgainst(mot)
       /\ AtMostTwoAgainst(mot')
       /\ (pc = "evaluate" /\ k <= Len(mot.annotations)
            /\ EvaluateFrame(mot, k, solver, {}).raised \in {"none", "AssertionError"}) =>
             \A n \in 1..Len(FrameIndices(mot, k, solver)) :
                LET before == Step2Prefix(mot, k, solver, n - 1)
                    after == Step2Prefix(mot, k, solver, n)
                IN  /\ AtMostTwoAgainst(before.self)
                    /\ after.self.identity_switches
                          <= before.self.identity_switches + 2]_vars

\* A, B, C were paired with 1, 2, 3, and then A with 2: the one new pair
\* removed A -> 1 and B -> 2
C24_Witness ==
    /\ pc = "evaluate" /\ k = 3 /\ calls = 1
    /\ Len(mot.annotations[1].annotations) = 3
    /\ mot.total_correspondences = 4
    /\ mot.mappings = [a \in {"A", "C"} |-> IF a = "A" THEN "2" ELSE "3"]
    /\ mot.identity_switches = 2

\* iou of two objects is defined and at least the threshold
Overlapping(self, a, h) ==
    /\ ~IouRaises(BB(a), BB(h))
    /\ RatGeq(intersection_over_union(BB(a), BB(h)), self.overlap_threshold)

\* _mappings is {A -> 1, B -> 2} and frame fi holds A and B, which overlap
\* hypothesis 2 and hypothesis 1 only, and these two hypotheses
SwapFrame(self, fi) ==
    LET annotations == self.annotations[fi].annotations
        hypotheses == FrameHypotheses(self, fi)
    IN  /\ self.mappings = [a \in {"A", "B"} |-> IF a = "A" THEN "1" ELSE "2"]
        /\ Len(annotations) = 2 /\ Len(hypotheses) = 2
        /\ \E ia, ib \in 1..2, h1, h2 \in 1..2 :
              /\ annotations[ia].id = "A" /\ annotations[ib].id = "B"
              /\ hypotheses[h1].id = "1" /\ hypotheses[h2].id = "2"
              /\ Overlapping(self, annotations[ia], hypotheses[h2])
              /\ Overlapping(self, annotations[ib], hypotheses[h1])
              /\ ~IouRaises(BB(annotations[ia]), BB(hypotheses[h1]))
              /\ ~Overlapping(self, annotations[ia], hypotheses[h1])
              /\ ~IouRaises(BB(annotations[ib]), BB(hypotheses[h2]))
              /\ ~Overlapping(self, annotations[ib], hypotheses[h2])

\* C25: with _mappings = {A -> 1, B -> 2}, a frame in which A overlaps only
\* hypothesis 2 and B only hypothesis 1 is evaluated without an exception:
\* step 1 carries nothing over, step 2 pairs A with 2 and B with 1, the
\* frame adds 2 to the identity switches, 0 to the false negatives and
\* positives and 2 to the correspondences, and leaves _mappings =
\* {A -> 2, B -> 1}, for every policy of the solver.
C25_IdentitySwap ==
    [][(pc = "evaluate" /\ k <= Len(mot.annotations) /\ SwapFrame(mot, k)) =>
         LET swapped == [a \in {"A", "B"} |-> IF a = "A" THEN "2" ELSE "1"]
         IN  /\ FrameEvaluated
             /\ Step1Correspondences(mot, mot.annotations[k].annotations,
                                      FrameHypotheses(mot, k)) = EmptyDict
             /\ Step2Outcome(mot, k, solver).correspondences = swapped
             /\ mot'.identity_switches = mot.identity_switches + 2
             /\ mot'.false_negatives = mot.false_negatives
             /\ mot'.false_positives = mot.false_positives
             /\ mot'.total_correspondences = mot.total_correspondences + 2
             /\ mot'.mappings = swapped]_vars

\* the swap has been evaluated with the solver returning (B, 1) before (A, 2)
C25_Witness ==
    /\ pc = "evaluate" /\ k = 3 /\ calls = 1
    /\ solver.order = "backward"
    /\ mot.annotations[2].annotations =
          <<[Obj("A", 0) EXCEPT !.class = "correspondence"],
            [Obj("B", 3) EXCEPT !.class = "identity_switch"]>>
    /\ mot.mappings = [a \in {"A", "B"} |-> IF a = "A" THEN "2" ELSE "1"]
    /\ mot.identity_switches = 2
    /\ mot.false_negatives = 0 /\ mot.false_positives = 0
    /\ mot.total_correspondences = 4

\* the ids of the pair the n-th iteration of the loop of step 2 accepts in
\* frame fi, << >> when it accepts none
AcceptedPair(self, fi, policy, n) ==
    LET cell == FrameIndices(self, fi, policy)[n]
    IN  IF FrameMatrix(self, fi)[cell] = munkres_inf THEN << >>
        ELSE <<self.annotations[fi].annotations[cell[1]].id,
               FrameHypotheses(self, fi)[cell[2]].id>>

\* the pairs step 2 accepts in frame fi
AcceptedPairs(self, fi, policy) ==
    {AcceptedPair(self, fi, policy, n) :
        n \in 1..Len(FrameIndices(self, fi, policy))} \ {<< >>}

\* the keys of old whose pair is not in new
Gone(old, new) ==
    {a \in Keys(old) : a \notin Keys(new) \/ new[a] # old[a]}

\* C26: step 1 changes neither _mappings nor the identity switches.  A frame
\* that raises leaves both as they were.  In a frame that is evaluated, a
\* pair (a -> h) of _mappings that step 1 does not carry over is still in
\* _mappings after the frame exactly when no pair accepted by step 2
\* contradicts it; the identity switches the frame counts are as many as
\* the pairs that left _mappings, hence none when step 2 accepts no pair.
C26_DroppedCarryOver ==
    [][(pc = "evaluate" /\ k <= Len(mot.annotations)) =>
         LET M == mot.mappings
             dropped == Keys(M) \ Step1Keys(mot, mot.annotations[k].annotations,
                                            FrameHypotheses(mot, k))
             accepted == AcceptedPairs(mot, k, solver)
         IN  /\ ~FrameEvaluated =>
                  /\ mot'.mappings = M
                  /\ mot'.identity_switches = mot.identity_switches
             /\ FrameEvaluated =>
                  /\ \A a \in dropped :
                        (a \in Gone(M, mot'.mappings))
                          <=> \E p \in accepted :
                                 \/ (a = p[1] /\ M[a] # p[2])
                                 \/ (a # p[1] /\ M[a] = p[2])
                  /\ mot'.identity_switches
                        = mot.identity_switches + Cardinality(Gone(M, mot'.mappings))
                  /\ accepted = {} =>
                        /\ mot'.mappings = M
                        /\ mot'.identity_switches = mot.identity_switches]_vars

\* A -> 1 was dropped in the second frame, hypothesis 1 having moved away,
\* and is still in _mappings, no switch counted
C26_Witness ==
    /\ pc = "evaluate" /\ k = 3 /\ calls = 1
    /\ mot.annotations[2].annotations = <<[Obj("A", 0) EXCEPT !.class = "false_negative"]>>
    /\ mot.hypotheses[2].hypotheses = <<[Obj("1", 3) EXCEPT !.class = "false positive"]>>
    /\ mot.mappings = [a \in {"A"} |-> "1"]
    /\ mot.identity_switches = 0
    /\ mot.total_correspondences = 1

\* a pair was dropped by step 1 and removed by a pair of step 2 in the same
\* frame: hypothesis 1 gone, A paired with hypothesis 2
C26_WitnessContradicted ==
    /\ pc = "evaluate" /\ k = 3 /\ calls = 1
    /\ mot.hypotheses[1].hypotheses = <<[Obj("1", 0) EXCEPT !.class = "correspondence"]>>
    /\ mot.annotations[2].annotations = <<[Obj("A", 0) EXCEPT !.class = "identity_switch"]>>
    /\ mot.mappings = [a \in {"A"} |-> "2"]

\* the objects with ids a_id and h_id of frame fi overlap by the threshold
PairOverlaps(self, fi, a_id, h_id) ==
    LET annotations == self.annotations[fi].annotations
        hypotheses == FrameHypotheses(self, fi)
    IN  /\ WithId(annotations, a_id) # {}
        /\ WithId(hypotheses, h_id) # {}
        /\ \A i \in WithId(annotations, a_id), j \in WithId(hypotheses, h_id) :
              Overlapping(self, annotations[i], hypotheses[j])

\* the keys of new that old does not map to the same value
Written(old, new) ==
    {key \in Keys(new) : key \notin Keys(old) \/ old[key] # new[key]}

\* C27: in a frame that is evaluated, every pair of the frame's
\* correspondences, carried over by step 1 or accepted by step 2, is a pair
\* of objects of the frame whose iou is at least the threshold; an
\* iteration of step 2's loop on a cell left at munkres_inf changes nothing;
\* and every pair the frame writes into _mappings, _a_map or _h_map is one
\* of those correspondences.
C27_ThresholdRespected ==
    [][FrameEvaluated =>
         LET indices == FrameIndices(mot, k, solver)
             C == Step2Outcome(mot, k, solver).correspondences
         IN  /\ \A a_id \in Keys(C) : PairOverlaps(mot, k, a_id, C[a_id])
             /\ \A n \in 1..Len(indices) :
                   FrameMatrix(mot, k)[indices[n]] = munkres_inf =>
                     Step2Prefix(mot, k, solver, n) = Step2Prefix(mot, k, solver, n - 1)
             /\ \A a_id \in Written(mot.mappings, mot'.mappings) :
                   a_id \in Keys(C) /\ C[a_id] = mot'.mappings[a_id]
             /\ \A a_id \in Written(mot.a_map, mot'.a_map) :
                   a_id \in Keys(C) /\ C[a_id] = mot'.a_map[a_id]
             /\ \A h_id \in Written(mot.h_map, mot'.h_map) :
                   mot'.h_map[h_id] \in Keys(C) /\ C[mot'.h_map[h_id]] = h_id
             /\ mot'.total_correspondences
                   = mot.total_correspondences + Cardinality(Keys(C))]_vars

\* a frame of two objects and two hypotheses in which the solver had to
\* return a cell left at munkres_inf: B and hypothesis 1 stay unpaired
C27_Witness ==
    /\ pc = "evaluate" /\ k = 2 /\ calls = 1
    /\ mot.annotations[1].annotations =
          <<[Obj("A", 0) EXCEPT !.class = "correspondence"],
            [Obj("B", 3) EXCEPT !.class = "false_negative"]>>
    /\ mot.hypotheses[1].hypotheses =
          <<[Obj("1", 0) EXCEPT !.class = "false positive"],
            [Obj("2", 0) EXCEPT !.class = "correspondence"]>>
    /\ mot.mappings = [a \in {"A"} |-> "2"]
    /\ mot.a_map = [a \in {"A"} |-> "2"]
    /\ mot.h_map = [h \in {"2"} |-> "A"]

\* C28, as claimed: step 2 works for frames of any sizes, the numbers of
\* annotations and of hypotheses equal or not: no access falls outside the
\* distance matrix, so no frame ends evaluate() with an IndexError.
C28_AnyFrameSizes == raised # "IndexError"

\* C29, as claimed: a frame in which an id that is a key of _mappings occurs
\* more than once among the annotations is evaluated without an exception.
C29_DuplicateIdTolerated ==
    [][(/\ pc = "evaluate"
        /\ k <= Len(mot.annotations)
        /\ \E a_id \in Keys(mot.mappings) :
              Cardinality(WithId(mot.annotations[k].annotations, a_id)) > 1)
         => FrameEvaluated]_vars

\* the ids of the objects of a list are pairwise different
UniqueIds(objs) ==
    \A i, j \in DOMAIN objs : objs[i].id = objs[j].id => i = j

\* C30: with ids unique within each frame, the assertion of step 2 never
\* fires: in every frame whose loop of step 2 runs, each pair (a_id, h_id)
\* the loop accepts finds a_id either not a key of _mappings or mapped to
\* another hypothesis, for every policy of the solver, and evaluate() never
\* ends with an AssertionError.
C30_AssertionHolds ==
    [][/\ raised' # "AssertionError"
       /\ (/\ pc = "evaluate"
            /\ k <= Len(mot.annotations)
            /\ UniqueIds(mot.annotations[k].annotations)
            /\ UniqueIds(FrameHypotheses(mot, k))
            /\ EvaluateFrame(mot, k, solver, {}).raised \in {"none", "AssertionError"}) =>
             \A n \in 1..Len(FrameIndices(mot, k, solver)) :
                LET pair == AcceptedPair(mot, k, solver, n)
                    M == Step2Prefix(mot, k, solver, n - 1).self.mappings
                IN  (pair # << >> /\ pair[1] \in Keys(M)) => M[pair[1]] # pair[2]]_vars

\* step 2 accepted (A, 2) in the second frame while _mappings held A -> 1,
\* and the frame was evaluated
C30_Witness ==
    /\ pc = "evaluate" /\ k = 3 /\ calls = 1 /\ raised = "none"
    /\ mot.annotations[2].annotations =
          <<[Obj("A", 0) EXCEPT !.class = "identity_switch"],
            [Obj("B", 0) EXCEPT !.class = "false_negative"]>>
    /\ mot.hypotheses[1].hypotheses = <<[Obj("1", 0) EXCEPT !.class = "correspondence"]>>
    /\ mot.mappings = [a \in {"A"} |-> "2"]

\* no hypothesis frame lies within sync_delta of ground-truth frame fi
Unmatched(self, fi) ==
    \A f \in DOMAIN self.hypotheses :
        Abs(self.hypotheses[f].timestamp - self.annotations[fi].timestamp)
            >= self.sync_delta

\* C31: a ground-truth frame with no hypothesis frame within sync_delta is
\* evaluated without an exception; it adds the number of its objects to the
\* false negatives and to the ground truths and its ids to the ids seen,
\* and leaves the false positives, the identity switches, the
\* correspondences, the total overlap, _mappings, _a_map, _h_map and the
\* hypothesis ids seen as they were.
C31_UnmatchedFrame ==
    [][(pc = "evaluate" /\ k <= Len(mot.annotations) /\ Unmatched(mot, k)) =>
         LET annotations == mot.annotations[k].annotations
         IN  /\ FrameEvaluated
             /\ mot'.false_negatives = mot.false_negatives + Len(annotations)
             /\ mot'.total_annotations = mot.total_annotations + Len(annotations)
             /\ mot'.annotations_ids
                   = mot.annotations_ids \cup {annotations[i].id : i \in DOMAIN annotations}
             /\ mot'.false_positives = mot.false_positives
             /\ mot'.identity_switches = mot.identity_switches
             /\ mot'.total_correspondences = mot.total_correspondences
             /\ mot'.total_overlap = mot.total_overlap
             /\ mot'.mappings = mot.mappings
             /\ mot'.a_map = mot.a_map
             /\ mot'.h_map = mot.h_map
             /\ mot'.hypotheses_ids = mot.hypotheses_ids]_vars

\* the second ground-truth frame, with A, had no hypothesis frame near it,
\* after a first frame that paired A with hypothesis 1
C31_Witness ==
    /\ pc = "evaluate" /\ k = 3 /\ calls = 1
    /\ Unmatched(mot, 2)
    /\ mot.annotations[2].annotations = <<[Obj("A", 0) EXCEPT !.class = "false_negative"]>>
    /\ mot.mappings = [a \in {"A"} |-> "1"]
    /\ mot.false_negatives = 1
    /\ mot.total_annotations = 2
    /\ mot.total_correspondences = 1

\* C32: after a frame is evaluated each of its annotations has the class
\* false_negative if its id is not a key of the frame's correspondences
\* and else correspondence or identity_switch, and each of its hypotheses
\* has the class "false positive" if its id is not a value of the
\* correspondences and else correspondence or identity_switch; none is
\* left unevaluated.
C32_EveryObjectClassified ==
    [][FrameEvaluated =>
         LET C == Step2Outcome(mot, k, solver).correspondences
             hf == hypotheses_frame(mot, mot.annotations[k].timestamp)
             annotations == mot'.annotations[k].annotations
             hypotheses == HypothesesOf(mot', hf)
             empty == /\ Len(mot.annotations[k].annotations) = 0
                      /\ Len(FrameHypotheses(mot, k)) = 0
         IN  ~empty =>
               /\ \A i \in DOMAIN annotations :
                     IF annotations[i].id \in Keys(C)
                     THEN annotations[i].class \in {"correspondence", "identity_switch"}
                     ELSE annotations[i].class = "false_negative"
               /\ \A j \in DOMAIN hypotheses :
                     IF \E a_id \in Keys(C) : C[a_id] = hypotheses[j].id
                     THEN hypotheses[j].class \in {"correspondence", "identity_switch"}
                     ELSE hypotheses[j].class = "false positive"]_vars

\* a frame has been evaluated that left a miss, a false positive, a
\* correspondence and an identity switch
C32_Witness ==
    /\ pc = "evaluate" /\ k = 3
    /\ \E f \in 1..2 : \E i \in DOMAIN mot.annotations[f].annotations :
          mot.annotations[f].annotations[i].class = "false_negative"
    /\ \E f \in 1..2 : \E i \in DOMAIN mot.annotations[f].annotations :
          mot.annotations[f].annotations[i].class = "identity_switch"
    /\ \E f \in DOMAIN mot.hypotheses : \E j \in DOMAIN mot.hypotheses[f].hypotheses :
          mot.hypotheses[f].hypotheses[j].class = "false positive"
    /\ \E f \in DOMAIN mot.hypotheses : \E j \in DOMAIN mot.hypotheses[f].hypotheses :
          mot.hypotheses[f].hypotheses[j].class = "correspondence"
    /\ \A f \in 1..2 : \A i \in DOMAIN mot.annotations[f].annotations :
          mot.annotations[f].annotations[i].class # "unevaluated"

\* C33: a frame with no annotations and no hypotheses is evaluated without
\* an exception and leaves the object as it was: counters, _mappings,
\* _a_map, _h_map, the ids seen and the debug records.
C33_EmptyFrame ==
    [][(/\ pc = "evaluate"
        /\ k <= Len(mot.annotations)
        /\ Cardinality(hypotheses_frames(mot, mot.annotations[k].timestamp)) <= 1
        /\ Len(mot.annotations[k].annotations) = 0
        /\ Len(FrameHypotheses(mot, k)) = 0)
         => (FrameEvaluated /\ mot' = mot)]_vars

\* an empty first frame has been passed, and a second frame evaluated
C33_Witness ==
    /\ pc = "evaluate" /\ k = 3 /\ calls = 1
    /\ Len(mot.annotations[1].annotations) = 0
    /\ Len(FrameHypotheses(mot, 1)) = 0
    /\ Len(mot.visual_debug_frames) = 1
    /\ mot.total_annotations > 0

\* the five integer counters of the object
Counters(self) ==
    <<self.false_negatives, self.false_positives, self.identity_switches,
      self.total_annotations, self.total_correspondences>>

\* C34: in every state the false negatives, the false positives, the
\* identity switches, the ground truths and the correspondences are
\* natural numbers; no step of evaluate(), a frame that returns or one that
\* raises, decreases any of them; and mota() raises only when no ground
\* truth has been counted, never for a negative counter.
C34_CountersGrow ==
    [][/\ \A i \in 1..5 : Counters(mot)[i] \in Nat /\ Counters(mot')[i] \in Nat
       /\ pc = "evaluate" => \A i \in 1..5 : Counters(mot')[i] >= Counters(mot)[i]
       /\ mota_raises(mot) => mot.total_annotations = 0
       /\ mota_raises(mot') => mot'.total_annotations = 0]_vars

\* every counter has grown, and evaluate() is between two frames
C34_Witness ==
    /\ pc = "evaluate" /\ k = 2
    /\ \A i \in 1..5 : Counters(mot)[i] > 0
    /\ ~mota_raises(mot)

\* C35: with ids unique within each frame, in every state, hence after
\* every evaluated frame, false negatives + correspondences = ground
\* truths; and each evaluated frame adds to the false negatives and to the
\* correspondences, together, the number of its annotations.
C35_MissOrCorrespondence ==
    [][/\ mot.false_negatives + mot.total_correspondences = mot.total_annotations
       /\ mot'.false_negatives + mot'.total_correspondences = mot'.total_annotations
       /\ FrameEvaluated =>
            LET annotations == mot.annotations[k].annotations
                C == Step2Outcome(mot, k, solver).correspondences
            IN  /\ UniqueIds(annotations)
                /\ mot'.false_negatives - mot.false_negatives
                      = Cardinality({i \in DOMAIN annotations : annotations[i].id \notin Keys(C)})
                /\ mot'.total_correspondences - mot.total_correspondences
                      = Cardinality({i \in DOMAIN annotations : annotations[i].id \in Keys(C)})
                /\ mot'.total_annotations - mot.total_annotations = Len(annotations)]_vars

\* two frames of two annotations each: one miss, three correspondences, one
\* of them an identity switch
C35_Witness ==
    /\ pc = "evaluate" /\ k = 3 /\ calls = 1
    /\ mot.total_annotations = 4
    /\ mot.false_negatives = 1
    /\ mot.total_correspondences = 3
    /\ mot.identity_switches = 1

\* C36: in every state, hence after every evaluated frame, each pair
\* (a -> h) of _mappings is in both coverage maps: _a_map[a] = h and
\* _h_map[h] = a.
C36_MappingsCovered ==
    \A a \in Keys(mot.mappings) :
        LET h == mot.mappings[a]
        IN  /\ a \in Keys(mot.a_map)
            /\ mot.a_map[a] = h
            /\ h \in Keys(mot.h_map)
            /\ mot.h_map[h] = a

\* A was paired with hypothesis 1, then B with hypothesis 1 and A with
\* hypothesis 2: the coverage maps were overwritten as _mappings was
C36_Witness ==
    /\ pc = "evaluate" /\ k = 3 /\ calls = 1
    /\ mot.hypotheses[1].hypotheses = <<[Obj("1", 0) EXCEPT !.class = "correspondence"]>>
    /\ mot.mappings = [a \in {"A", "B"} |-> IF a = "A" THEN "2" ELSE "1"]
    /\ mot.a_map = mot.mappings
    /\ mot.h_map = [h \in {"1", "2"} |-> IF h = "1" THEN "B" ELSE "A"]

\* C37, as claimed: after a frame is evaluated, an annotation or a
\* hypothesis of the frame has the class identity_switch only if step 2
\* marked it in this evaluation, counting an identity switch for its pair;
\* a class left by an earlier evaluation is not kept, also when the
\* hypothesis frame is evaluated with several ground-truth frames.
C37_NoStaleSwitchLabel ==
    [][FrameEvaluated =>
         LET marked == Range(Step2Outcome(mot, k, solver).visual_debug_annotations)
             hf == hypotheses_frame(mot, mot.annotations[k].timestamp)
             annotations == mot'.annotations[k].annotations
             hypotheses == HypothesesOf(mot', hf)
         IN  /\ \A i \in DOMAIN annotations :
                   annotations[i].class = "identity_switch" => ARef(k, i) \in marked
             /\ \A j \in DOMAIN hypotheses :
                   hypotheses[j].class = "identity_switch" => HRef(hf, j) \in marked]_vars

\* more than one hypothesis frame lies within sync_delta of frame fi
Ambiguous(self, fi) ==
    \E f, g \in DOMAIN self.hypotheses :
        /\ f # g
        /\ Abs(self.hypotheses[f].timestamp - self.annotations[fi].timestamp)
              < self.sync_delta
        /\ Abs(self.hypotheses[g].timestamp - self.annotations[fi].timestamp)
              < self.sync_delta

\* C38: when the frame evaluate() has come to has several hypothesis
\* frames within sync_delta, evaluate() ends there with the Exception: the
\* object is left exactly as the frames before left it, counters,
\* _mappings, maps, id sets and debug records, _evaluated is false, and no
\* later frame is evaluated in this call.
C38_AmbiguityPropagates ==
    [][(pc = "evaluate" /\ k <= Len(mot.annotations) /\ Ambiguous(mot, k)) =>
         /\ raised' = "Exception"
         /\ pc' = "idle"
         /\ mot' = mot
         /\ k' = 0
         /\ ~mot'.evaluated]_vars

\* evaluate() raised at the second frame, the first having been evaluated
\* with a correspondence
C38_Witness ==
    /\ pc = "idle" /\ raised = "Exception" /\ calls = 1
    /\ Ambiguous(mot, 2) /\ ~Ambiguous(mot, 1)
    /\ mot.total_correspondences = 1
    /\ Keys(mot.mappings) = {"A"}
    /\ Len(mot.visual_debug_frames) = 1
    /\ ~mot.evaluated

====
